---- MODULE Spec2Model ----
(***************************************************************************)
(* ThunderClaude, src-tauri: the CLI query supervisor.                     *)
(*                                                                         *)
(* send_query (lib.rs) hands out a query id and detaches a task running    *)
(* run_query (claude.rs); run_query spawns the CLI child, registers its    *)
(* handle in the process registry, starts one reader task per output pipe, *)
(* joins the stdout reader, takes the handle back out of the registry,     *)
(* waits for the exit status and emits claude-done.  cancel_query (lib.rs) *)
(* removes the handle from the registry and kills the child.               *)
(*                                                                         *)
(* Tasks run on a multi-threaded runtime: every stretch of code between    *)
(* two effects on shared state (registry, child process, pipes, event      *)
(* stream) is one action.  An Option<T> of the source is a sequence of     *)
(* length at most one: <<>> is None, <<v>> is Some(v).                     *)
(***************************************************************************)
EXTENDS Integers, Sequences, FiniteSets, TLC

\* ------------------------------------------------------------------ bounds
MaxQueries == 2     \* queries submitted in one run
MaxCancels == 1     \* cancel_query calls in one run
MaxLines == 1       \* lines the children write to their output pipes in one run
MaxRelayLines == 3  \* lines on the stdout of the one child of RelaySpec

QueryIds == 1..MaxQueries

\* ------------------------------------------------------- options of the source
None == <<>>
Some(v) == <<v>>
IsSome(o) == o # <<>>
Unwrap(o) == o[1]

\* QueryConfig.engine: Option<String>, "claude" or "gemini".
Engines == {None, Some("gemini")}

\* ExitStatus::code(): None when the process was ended by a signal.
ExitStatuses == {Some(0), Some(1), None}

\* child.wait().await.ok(): the exit status, or None when the wait failed.
WaitResults == {Some(st) : st \in ExitStatuses} \cup {None}

\* A line of child output, by what the readers look at: its text, whether
\* serde_json parses it, and the value of "session_id" as a string when the
\* parsed value has one (None when the field is absent or is not a string).
Blank == [text |-> "  ", json |-> FALSE, sid |-> None]
Plain == [text |-> "not json", json |-> FALSE, sid |-> None]
JsonEmptySid == [text |-> "{session_id:''}", json |-> TRUE, sid |-> Some("")]
JsonSidAbc == [text |-> "{session_id:abc}", json |-> TRUE, sid |-> Some("abc")]
JsonNoSid == [text |-> "{type:init}", json |-> TRUE, sid |-> None]
JsonSidXyz == [text |-> "{session_id:xyz}", json |-> TRUE, sid |-> Some("xyz")]

StdoutLines == {Blank, Plain, JsonEmptySid, JsonSidAbc}
StderrLines == {Blank, Plain}
RelayLines == StdoutLines \cup {JsonNoSid, JsonSidXyz}

VARIABLES
    nextId,        \* send_query: how many ids have been handed out
    engine,        \* engine[q]: config.engine of query q
    pc,            \* pc[q]: where the task running run_query(q) stands
    registry,      \* the ProcessRegistry: the set of keys holding a Child
    lock,          \* holder of the registry mutex, <<>> when free
    child,         \* child[q]: "none", "running", "exited", "killed"
    stdoutOpen,    \* stdoutOpen[q]: the write end of q's stdout pipe is open
    outBuf,        \* outBuf[q]: lines written to stdout and not read yet
    errBuf,        \* errBuf[q]: lines written to stderr and not read yet
    linesWritten,  \* number of lines the children have written so far
    stdoutWritten, \* stdoutWritten[q]: the lines q's child wrote to stdout (history)
    stderrWritten, \* stderrWritten[q]: the lines q's child wrote to stderr (history)
    outReader,     \* outReader[q]: "idle", "reading", "finished"
    errReader,     \* errReader[q]: "idle", "reading", "finished"
    lastSessionId, \* lastSessionId[q]: last_session_id of the stdout reader
    statuses,      \* statuses[q]: status of run_query(q), None until computed
    rawExits,      \* rawExits[q]: raw_exit of run_query(q), None until computed
    events,        \* events[q]: the events emitted for q, in order
    cancelCalls,   \* number of cancel_query calls made so far
    cancelWaiting, \* cancelWaiting[q]: calls cancel_query(q) waiting for the lock
    cancelRets,    \* cancelRets[q]: what the calls cancel_query(q) returned (history)
    removals,      \* removals[q]: who got Some from registry.remove(q) (history)
    config,        \* the QueryConfig of the command under construction
    host,          \* the host of that command: its OS and what exists on its disk
    cmd,           \* the command: binary, arguments, stdio, and what became of stdin
    activeProjectRoot  \* AppState.active_project_root

\* The sessions store: the index file, the data files, and the calls of its
\* commands.
VARIABLES
    sessionsIndex, \* the content of the sessions index file: a Vec<SessionIndex>
    sessionFiles,  \* sessionFiles[id]: the data file of session id, None when absent
    sessionCalls   \* the calls made so far, each with its position and its locals

VARIABLES
    memory,        \* the AppState fields that make up the Settings
    disk,          \* the Settings in settings.json
    settingsCalls  \* the calls made so far, each with its position and its locals

VARIABLES
    embedderModel, \* SearchState.embedder holds Some(model)
    searchLocks,   \* searchLocks[l]: the call that holds lock l, 0 when free
    embeddingStatus, \* SearchState.status
    vectorIndex,   \* SearchState.index: a VectorIndex
    vectorFiles,   \* the VectorIndex saved in the vectors directory
    searchCalls,   \* the calls made so far, each with its position and its locals
    batches        \* the add_batch calls made so far on vectorIndex

sessionVars == <<sessionsIndex, sessionFiles, sessionCalls>>
settingsVars == <<memory, disk, settingsCalls>>
searchVars ==
    <<embedderModel, searchLocks, embeddingStatus, vectorIndex, vectorFiles,
      searchCalls, batches>>
storeVars == <<sessionVars, settingsVars, searchVars>>

vars == <<nextId, engine, pc, registry, lock, child, stdoutOpen,
          outBuf, errBuf, linesWritten, stdoutWritten, stderrWritten, outReader,
          errReader,
          lastSessionId, statuses, rawExits, events, cancelCalls, cancelWaiting,
          cancelRets, removals, config, host, cmd, activeProjectRoot, storeVars>>

procVars ==
    <<child, stdoutOpen, outBuf, errBuf, linesWritten, stdoutWritten, stderrWritten>>
readerVars == <<outReader, errReader, lastSessionId>>
cancelVars == <<cancelCalls, cancelWaiting, cancelRets>>
callVars == <<cancelVars, removals>>
cmdVars == <<config, host, cmd, activeProjectRoot>>
writtenVars == <<stdoutWritten, stderrWritten>>
exitVars == <<statuses, rawExits>>

Free == <<>>
RunTask(q) == <<"run_query", q>>
CancelTask(q) == <<"cancel_query", q>>

\* The write end of the stderr pipe is open as long as the child runs.
StderrOpen(q) == child[q] = "running"

\* ------------------------------------------------------------------ events
MessageEvent(q, line, eng) ==
    [type |-> "claude-message", queryId |-> q, data |-> line.text,
     engine |-> eng, exitCode |-> 0, sessionId |-> None]
\* Mutant of ErrorEvent: the line is not passed on verbatim.
ErrorEventTagged(q, text) ==
    [type |-> "claude-error", queryId |-> q, data |-> "stderr: " \o text,
     engine |-> "", exitCode |-> 0, sessionId |-> None]
ErrorEvent(q, text) ==
    [type |-> "claude-error", queryId |-> q, data |-> text,
     engine |-> "", exitCode |-> 0, sessionId |-> None]
DoneEvent(q, code, sid) ==
    [type |-> "claude-done", queryId |-> q, data |-> "",
     engine |-> "", exitCode |-> code, sessionId |-> sid]

Emit(q, ev) == events' = [events EXCEPT ![q] = Append(@, ev)]

\* Where run_query(q) stands, as a caller of cancel_query can tell: the id is
\* not handed out yet, the child is not spawned yet, it is spawned and not
\* registered yet, the query is under way, or run_query has returned.
Phase(at) ==
    CASE at = "none" -> "unknown"
      [] at \in {"building", "spawned"} -> at
      [] at \in {"streaming", "waiting"} -> "live"
      [] OTHER -> "finished"

\* A returned cancel_query call: its result, and the phase of its target while
\* the call held the lock.
CancelRet(ret, at) == [ret |-> ret, at |-> Phase(at)]

SupervisorInit ==
    /\ nextId = 0
    /\ engine = [q \in QueryIds |-> None]
    /\ pc = [q \in QueryIds |-> "none"]
    /\ registry = {}
    /\ lock = Free
    /\ child = [q \in QueryIds |-> "none"]
    /\ stdoutOpen = [q \in QueryIds |-> FALSE]
    /\ outBuf = [q \in QueryIds |-> <<>>]
    /\ errBuf = [q \in QueryIds |-> <<>>]
    /\ linesWritten = 0
    /\ stdoutWritten = [q \in QueryIds |-> <<>>]
    /\ stderrWritten = [q \in QueryIds |-> <<>>]
    /\ outReader = [q \in QueryIds |-> "idle"]
    /\ errReader = [q \in QueryIds |-> "idle"]
    /\ lastSessionId = [q \in QueryIds |-> None]
    /\ statuses = [q \in QueryIds |-> None]
    /\ rawExits = [q \in QueryIds |-> None]
    /\ events = [q \in QueryIds |-> <<>>]
    /\ cancelCalls = 0
    /\ cancelWaiting = [q \in QueryIds |-> 0]
    /\ cancelRets = [q \in QueryIds |-> {}]
    /\ removals = [q \in QueryIds |-> <<>>]

\* No command is under construction.
NoCommand == <<>>

\* No store is in use.
SessionsIdle ==
    /\ sessionsIndex = NoCommand
    /\ sessionFiles = NoCommand
    /\ sessionCalls = NoCommand

SettingsIdle ==
    /\ memory = NoCommand
    /\ disk = NoCommand
    /\ settingsCalls = NoCommand

SearchIdle ==
    /\ embedderModel = NoCommand
    /\ searchLocks = NoCommand
    /\ embeddingStatus = NoCommand
    /\ vectorIndex = NoCommand
    /\ vectorFiles = NoCommand
    /\ searchCalls = NoCommand
    /\ batches = NoCommand

StoresIdle == SessionsIdle /\ SettingsIdle /\ SearchIdle

Init ==
    /\ SupervisorInit
    /\ config = NoCommand
    /\ host = NoCommand
    /\ cmd = NoCommand
    /\ activeProjectRoot = NoCommand
    /\ StoresIdle

\* ------------------------------------------------- pure parts of run_query
\* config.engine.as_deref().unwrap_or("claude")
EngineName(eng) == IF IsSome(eng) THEN Unwrap(eng) ELSE "claude"

IsGemini(eng) == EngineName(eng) = "gemini"

\* Mutant of IsBlankLine: a line that does not parse is skipped like a blank one.
IsBlankOrUnparsed(line) == line.text = "  " \/ ~line.json

\* line.trim().is_empty()
IsBlankLine(line) == line.text = "  "

\* Mutant of HarvestSessionId: an empty session_id is remembered as well.
HarvestEvenEmpty(last, line) ==
    IF line.json /\ IsSome(line.sid) THEN Some(Unwrap(line.sid)) ELSE last

\* The stdout reader's update of last_session_id on one line: the line must
\* parse, carry "session_id" as a string, and the string must not be empty.
HarvestSessionId(last, line) ==
    IF line.json /\ IsSome(line.sid) /\ Unwrap(line.sid) # ""
    THEN Some(Unwrap(line.sid))
    ELSE last

\* Mutant of RawExit: a missing exit code is taken for success.
RawExitOrSuccess(status) ==
    IF IsSome(status) /\ IsSome(Unwrap(status)) THEN Unwrap(Unwrap(status)) ELSE 0

\* status.and_then(|s| s.code()).unwrap_or(-1); status is None when the handle
\* was not in the registry or the wait failed, Some(exit status) otherwise.
RawExit(status) ==
    IF IsSome(status) /\ IsSome(Unwrap(status)) THEN Unwrap(Unwrap(status)) ELSE -1

\* Mutant of ExitCode: the remap is applied whatever the engine.
ExitCodeAnyEngine(isGemini, rawExit, sessionId) ==
    IF rawExit # 0 /\ IsSome(sessionId) THEN 0 ELSE rawExit

\* The Gemini remap of the exit code.
ExitCode(isGemini, rawExit, sessionId) ==
    IF isGemini /\ rawExit # 0 /\ IsSome(sessionId) THEN 0 ELSE rawExit

\* Mutant of RegistryInsert: the handle is not put into the map.
RegistryInsertNothing(reg, q) == reg

\* HashMap::insert, HashMap::remove and its result, on the registry's keys.
RegistryInsert(reg, q) == reg \cup {q}

\* Mutant of RegistryRemove: the map is cleared.
RegistryRemoveAll(reg, q) == {}

\* Mutant of RegistryRemove: the handle is looked up and left in the map.
RegistryRemoveNothing(reg, q) == reg

RegistryRemove(reg, q) == reg \ {q}

\* Mutant of RegistryFound: every id is taken for a registered one.
RegistryFoundAlways(reg, q) == TRUE

RegistryFound(reg, q) == q \in reg

\* Mutant of StreamsJoined: run_query does not await the stdout reader.
StreamsNotAwaited(q) == outReader[q] # "idle"

\* What run_query awaits before it goes for the registry: stdout_handle only.
StreamsJoined(q) == outReader[q] = "finished"

\* Mutant of Killed: the kill is not issued.
KilledNot(state) == state

\* Child::kill on a handle: a running child dies, an exited one stays exited.
Killed(state) == IF state = "running" THEN "killed" ELSE state

\* ------------------------------------------------------------ send_query
\* A fresh id is returned at once; run_query(id) runs in a detached task.
SendQuery(eng) ==
    /\ nextId < MaxQueries
    /\ nextId' = nextId + 1
    /\ engine' = [engine EXCEPT ![nextId + 1] = eng]
    /\ pc' = [pc EXCEPT ![nextId + 1] = "building"]
    /\ UNCHANGED <<storeVars, cmdVars, exitVars, registry, lock, procVars, readerVars, events,
                   callVars>>

\* ------------------------------------------------------------- run_query
\* cmd.spawn() succeeds: the child runs with both output pipes open.
SpawnOk(q) ==
    /\ pc[q] = "building"
    /\ pc' = [pc EXCEPT ![q] = "spawned"]
    /\ child' = [child EXCEPT ![q] = "running"]
    /\ stdoutOpen' = [stdoutOpen EXCEPT ![q] = TRUE]
    /\ UNCHANGED <<storeVars, cmdVars, nextId, engine, exitVars, registry, lock, outBuf, errBuf,
                   linesWritten, writtenVars, readerVars, events, callVars>>

\* Mutant of SpawnFail: the entry is made before the result of the spawn is
\* looked at.
SpawnFailAfterInsert(q) ==
    /\ pc[q] = "building"
    /\ pc' = [pc EXCEPT ![q] = "spawnFailed"]
    /\ registry' = RegistryInsert(registry, q)
    /\ Emit(q, ErrorEvent(q, "Failed to spawn"))
    /\ UNCHANGED <<storeVars, cmdVars, nextId, engine, exitVars, lock, procVars, readerVars,
                   callVars>>

\* cmd.spawn() fails: run_query returns Err, and the detached task of
\* send_query emits it as a claude-error event.
SpawnFail(q) ==
    /\ pc[q] = "building"
    /\ pc' = [pc EXCEPT ![q] = "spawnFailed"]
    /\ Emit(q, ErrorEvent(q, "Failed to spawn"))
    /\ UNCHANGED <<storeVars, cmdVars, nextId, engine, exitVars, registry, lock, procVars,
                   readerVars, callVars>>

\* registry.lock().await.insert(query_id, child), then both readers are spawned.
Register(q) ==
    /\ pc[q] = "spawned"
    /\ lock = Free
    /\ registry' = RegistryInsert(registry, q)
    /\ pc' = [pc EXCEPT ![q] = "streaming"]
    /\ outReader' = [outReader EXCEPT ![q] = "reading"]
    /\ errReader' = [errReader EXCEPT ![q] = "reading"]
    /\ UNCHANGED <<storeVars, cmdVars, nextId, engine, exitVars, lock, procVars, lastSessionId,
                   events, callVars>>

\* The stdout reader takes one line: blank lines are skipped, every other line
\* is looked at for a session id and emitted as claude-message.
StdoutLine(q) ==
    /\ outReader[q] = "reading"
    /\ outBuf[q] # <<>>
    /\ LET line == Head(outBuf[q]) IN
         /\ outBuf' = [outBuf EXCEPT ![q] = Tail(@)]
         /\ IF IsBlankLine(line)
            THEN UNCHANGED <<lastSessionId, events>>
            ELSE /\ lastSessionId' =
                        [lastSessionId EXCEPT ![q] = HarvestSessionId(@, line)]
                 /\ Emit(q, MessageEvent(q, line, EngineName(engine[q])))
    /\ UNCHANGED <<storeVars, cmdVars, nextId, engine, exitVars, pc, registry, lock, child,
                   stdoutOpen, errBuf, linesWritten, writtenVars, outReader, errReader,
                   callVars>>

\* next_line() yields None: the pipe is drained and its write end is closed.
StdoutEof(q) ==
    /\ outReader[q] = "reading"
    /\ outBuf[q] = <<>>
    /\ ~stdoutOpen[q]
    /\ outReader' = [outReader EXCEPT ![q] = "finished"]
    /\ UNCHANGED <<storeVars, cmdVars, nextId, engine, exitVars, pc, registry, lock, procVars,
                   errReader,
                   lastSessionId, events, callVars>>

\* The stderr reader takes one line: non-blank lines are emitted as claude-error.
StderrLine(q) ==
    /\ errReader[q] = "reading"
    /\ errBuf[q] # <<>>
    /\ LET line == Head(errBuf[q]) IN
         /\ errBuf' = [errBuf EXCEPT ![q] = Tail(@)]
         /\ IF IsBlankLine(line)
            THEN UNCHANGED events
            ELSE Emit(q, ErrorEvent(q, line.text))
    /\ UNCHANGED <<storeVars, cmdVars, nextId, engine, exitVars, pc, registry, lock, child,
                   stdoutOpen, outBuf, linesWritten, writtenVars, readerVars, callVars>>

StderrEof(q) ==
    /\ errReader[q] = "reading"
    /\ errBuf[q] = <<>>
    /\ ~StderrOpen(q)
    /\ errReader' = [errReader EXCEPT ![q] = "finished"]
    /\ UNCHANGED <<storeVars, cmdVars, nextId, engine, exitVars, pc, registry, lock, procVars,
                   outReader,
                   lastSessionId, events, callVars>>

\* Mutant of Completion: no claude-done when the handle was gone.
CompletionUnlessCancelled(q, status) ==
    IF IsSome(status)
    THEN <<DoneEvent(q, ExitCode(IsGemini(engine[q]), RawExit(status),
                                 lastSessionId[q]), lastSessionId[q])>>
    ELSE <<>>

\* Mutant of Completion: claude-done is emitted once for the missing handle and
\* once more at the end.
CompletionTwiceWhenCancelled(q, status) ==
    LET done == DoneEvent(q, ExitCode(IsGemini(engine[q]), RawExit(status),
                                      lastSessionId[q]), lastSessionId[q])
    IN  IF IsSome(status) THEN <<done>> ELSE <<done, done>>

\* The events run_query emits once it has the status: one claude-done.
Completion(q, status) ==
    <<DoneEvent(q, ExitCode(IsGemini(engine[q]), RawExit(status), lastSessionId[q]),
                lastSessionId[q])>>

\* After the join run_query locks the registry and removes its key.  Found:
\* it keeps the lock and awaits child.wait().  Not found: the status is None
\* and claude-done follows with no further await.
TakeHandle(q) ==
    /\ pc[q] = "streaming"
    /\ StreamsJoined(q)
    /\ lock = Free
    /\ IF RegistryFound(registry, q)
       THEN /\ registry' = RegistryRemove(registry, q)
            /\ removals' = [removals EXCEPT ![q] = Append(@, "run_query")]
            /\ lock' = RunTask(q)
            /\ pc' = [pc EXCEPT ![q] = "waiting"]
            /\ UNCHANGED <<exitVars, events>>
       ELSE /\ statuses' = [statuses EXCEPT ![q] = Some(None)]
            /\ rawExits' = [rawExits EXCEPT ![q] = Some(RawExit(None))]
            /\ events' = [events EXCEPT ![q] = @ \o Completion(q, None)]
            /\ pc' = [pc EXCEPT ![q] = "done"]
            /\ UNCHANGED <<registry, lock, removals>>
    /\ UNCHANGED <<storeVars, cmdVars, nextId, engine, procVars, readerVars, cancelVars>>

\* child.wait().await.ok() on the ended child: Some(exit status), or None
\* when the wait fails; the lock guard is dropped and claude-done is emitted.
WaitReturns(q, waited) ==
    /\ pc[q] = "waiting"
    /\ child[q] # "running"
    /\ lock' = Free
    /\ statuses' = [statuses EXCEPT ![q] = Some(waited)]
    /\ rawExits' = [rawExits EXCEPT ![q] = Some(RawExit(waited))]
    /\ events' = [events EXCEPT ![q] = @ \o Completion(q, waited)]
    /\ pc' = [pc EXCEPT ![q] = "done"]
    /\ UNCHANGED <<storeVars, cmdVars, nextId, engine, registry, procVars, readerVars, callVars>>

\* ---------------------------------------------------------- the child process
ChildWritesStdout(q, line) ==
    /\ child[q] = "running"
    /\ stdoutOpen[q]
    /\ linesWritten < MaxLines
    /\ outBuf' = [outBuf EXCEPT ![q] = Append(@, line)]
    /\ linesWritten' = linesWritten + 1
    /\ stdoutWritten' = [stdoutWritten EXCEPT ![q] = Append(@, line)]
    /\ UNCHANGED <<storeVars, cmdVars, nextId, engine, exitVars, pc, registry, lock, child,
                   stdoutOpen, errBuf, stderrWritten, readerVars, events, callVars>>

ChildWritesStderr(q, line) ==
    /\ child[q] = "running"
    /\ linesWritten < MaxLines
    /\ errBuf' = [errBuf EXCEPT ![q] = Append(@, line)]
    /\ linesWritten' = linesWritten + 1
    /\ stderrWritten' = [stderrWritten EXCEPT ![q] = Append(@, line)]
    /\ UNCHANGED <<storeVars, cmdVars, nextId, engine, exitVars, pc, registry, lock, child,
                   stdoutOpen, outBuf, stdoutWritten, readerVars, events, callVars>>

\* The child closes its stdout and goes on running.
ChildClosesStdout(q) ==
    /\ child[q] = "running"
    /\ stdoutOpen[q]
    /\ stdoutOpen' = [stdoutOpen EXCEPT ![q] = FALSE]
    /\ UNCHANGED <<storeVars, cmdVars, nextId, engine, exitVars, pc, registry, lock, child,
                   outBuf, errBuf, linesWritten, writtenVars, readerVars, events,
                   callVars>>

\* The child ends on its own (exit code) or by a signal from outside (no code);
\* the end of the process closes the write ends of its pipes.
ChildExits(q) ==
    /\ child[q] = "running"
    /\ child' = [child EXCEPT ![q] = "exited"]
    /\ stdoutOpen' = [stdoutOpen EXCEPT ![q] = FALSE]
    /\ UNCHANGED <<storeVars, cmdVars, nextId, engine, exitVars, pc, registry, lock, outBuf,
                   errBuf,
                   linesWritten, writtenVars, readerVars, events, callVars>>

\* ------------------------------------------------------------ cancel_query
\* The command is invoked with some query id and goes for the lock.
CancelCall(q) ==
    /\ cancelCalls < MaxCancels
    /\ cancelCalls' = cancelCalls + 1
    /\ cancelWaiting' = [cancelWaiting EXCEPT ![q] = @ + 1]
    /\ UNCHANGED <<storeVars, cmdVars, nextId, engine, exitVars, pc, registry, lock, procVars,
                   readerVars,
                   events, cancelRets, removals>>

\* With the lock: reg.remove(&query_id).  Found: the kill is issued and
\* child.kill().await is awaited with the lock held.  Not found: Ok(false).
CancelLocked(q) ==
    /\ cancelWaiting[q] > 0
    /\ lock = Free
    /\ cancelWaiting' = [cancelWaiting EXCEPT ![q] = @ - 1]
    /\ IF RegistryFound(registry, q)
       THEN /\ registry' = RegistryRemove(registry, q)
            /\ removals' = [removals EXCEPT ![q] = Append(@, "cancel_query")]
            /\ lock' = CancelTask(q)
            /\ child' = [child EXCEPT ![q] = Killed(@)]
            /\ stdoutOpen' = [stdoutOpen EXCEPT ![q] = @ /\ Killed(child[q]) = "running"]
            /\ UNCHANGED cancelRets
       ELSE /\ cancelRets' = [cancelRets EXCEPT ![q] = @ \cup {CancelRet(FALSE, pc[q])}]
            /\ UNCHANGED <<registry, lock, child, stdoutOpen, removals>>
    /\ UNCHANGED <<storeVars, cmdVars, nextId, engine, exitVars, pc, outBuf, errBuf, linesWritten,
                   writtenVars, readerVars,
                   events, cancelCalls>>

\* child.kill().await is over: Ok(true), the guard and the handle are dropped.
CancelReturns(q) ==
    /\ lock = CancelTask(q)
    /\ child[q] # "running"
    /\ lock' = Free
    /\ cancelRets' = [cancelRets EXCEPT ![q] = @ \cup {CancelRet(TRUE, pc[q])}]
    /\ UNCHANGED <<storeVars, cmdVars, nextId, engine, exitVars, pc, registry, procVars,
                   readerVars, events,
                   cancelCalls, cancelWaiting, removals>>

\* --------------------------------------------------------- specifications
Next ==
    \/ \E eng \in Engines : SendQuery(eng)
    \/ \E q \in QueryIds : SpawnOk(q)
    \/ \E q \in QueryIds : SpawnFail(q)
    \/ \E q \in QueryIds : Register(q)
    \/ \E q \in QueryIds : StdoutLine(q)
    \/ \E q \in QueryIds : StdoutEof(q)
    \/ \E q \in QueryIds : StderrLine(q)
    \/ \E q \in QueryIds : StderrEof(q)
    \/ \E q \in QueryIds : TakeHandle(q)
    \/ \E q \in QueryIds, status \in WaitResults : WaitReturns(q, status)
    \/ \E q \in QueryIds, line \in StdoutLines : ChildWritesStdout(q, line)
    \/ \E q \in QueryIds, line \in StderrLines : ChildWritesStderr(q, line)
    \/ \E q \in QueryIds : ChildClosesStdout(q)
    \/ \E q \in QueryIds : ChildExits(q)
    \/ \E q \in QueryIds : CancelCall(q)
    \/ \E q \in QueryIds : CancelLocked(q)
    \/ \E q \in QueryIds : CancelReturns(q)

Spec == Init /\ [][Next]_vars

\* The stream relay of one query on longer outputs: the query is registered,
\* its readers are started, and its child has written up to MaxRelayLines
\* lines to stdout that are still in the pipe.  From there the readers, the
\* child, run_query and cancel_query go on as in Spec.
SeqsUpTo(S, n) == UNION {[1..k -> S] : k \in 0..n}

\* Query 1 is registered and its child has written outLines to stdout and
\* errLines to stderr; the readers have read nothing yet.
RelayStart(eng, outLines, errLines) ==
    /\ nextId = 1
    /\ engine = [q \in QueryIds |-> IF q = 1 THEN eng ELSE None]
    /\ pc = [q \in QueryIds |-> IF q = 1 THEN "streaming" ELSE "none"]
    /\ registry = RegistryInsert({}, 1)
    /\ lock = Free
    /\ child = [q \in QueryIds |-> IF q = 1 THEN "running" ELSE "none"]
    /\ stdoutOpen = [q \in QueryIds |-> q = 1]
    /\ outBuf = [q \in QueryIds |-> IF q = 1 THEN outLines ELSE <<>>]
    /\ errBuf = [q \in QueryIds |-> IF q = 1 THEN errLines ELSE <<>>]
    /\ linesWritten = Len(outLines) + Len(errLines)
    /\ stdoutWritten = [q \in QueryIds |-> IF q = 1 THEN outLines ELSE <<>>]
    /\ stderrWritten = [q \in QueryIds |-> IF q = 1 THEN errLines ELSE <<>>]
    /\ outReader = [q \in QueryIds |-> IF q = 1 THEN "reading" ELSE "idle"]
    /\ errReader = [q \in QueryIds |-> IF q = 1 THEN "reading" ELSE "idle"]
    /\ lastSessionId = [q \in QueryIds |-> None]
    /\ statuses = [q \in QueryIds |-> None]
    /\ rawExits = [q \in QueryIds |-> None]
    /\ events = [q \in QueryIds |-> <<>>]
    /\ cancelCalls = 0
    /\ cancelWaiting = [q \in QueryIds |-> 0]
    /\ cancelRets = [q \in QueryIds |-> {}]
    /\ removals = [q \in QueryIds |-> <<>>]
    /\ config = NoCommand
    /\ host = NoCommand
    /\ cmd = NoCommand
    /\ activeProjectRoot = NoCommand
    /\ StoresIdle

RelayInit ==
    \E eng \in Engines, lines \in SeqsUpTo(RelayLines, MaxRelayLines) :
        RelayStart(eng, lines, <<>>)

RelayNext ==
    \/ StdoutLine(1)
    \/ StdoutEof(1)
    \/ StderrEof(1)
    \/ TakeHandle(1)
    \/ \E status \in WaitResults : WaitReturns(1, status)
    \/ ChildClosesStdout(1)
    \/ ChildExits(1)
    \/ CancelCall(1)
    \/ CancelLocked(1)
    \/ CancelReturns(1)

RelaySpec == RelayInit /\ [][RelayNext]_vars

\* The relay of stderr: the child of query 1 has written up to MaxRelayLines
\* lines to stderr and at most one line to stdout.
ErrorRelayLines == {Blank, Plain, JsonNoSid}

ErrorRelayInit ==
    \E eng \in Engines, errLines \in SeqsUpTo(ErrorRelayLines, MaxRelayLines),
       outLines \in SeqsUpTo({Blank, JsonSidAbc}, 1) :
        RelayStart(eng, outLines, errLines)

ErrorRelayNext == RelayNext \/ StderrLine(1)

ErrorRelaySpec == ErrorRelayInit /\ [][ErrorRelayNext]_vars

\* The task running run_query(q) is torn down (its future is dropped) at one of
\* its suspension points.  What the future owns is dropped with it: the Child
\* while it is a local of run_query (after the spawn, and again after the
\* removal), and then kill_on_drop kills the process; the registry guard while
\* run_query holds it.  A Child that was moved into the registry is not owned
\* by the future, and the detached reader tasks go on.
TaskDropped(q) ==
    /\ pc[q] \in {"building", "spawned", "streaming", "waiting"}
    /\ pc' = [pc EXCEPT ![q] = "dropped"]
    /\ IF pc[q] \in {"spawned", "waiting"}
       THEN /\ child' = [child EXCEPT ![q] = Killed(@)]
            /\ stdoutOpen' = [stdoutOpen EXCEPT ![q] = @ /\ Killed(child[q]) = "running"]
       ELSE UNCHANGED <<child, stdoutOpen>>
    /\ lock' = IF lock = RunTask(q) THEN Free ELSE lock
    /\ UNCHANGED <<storeVars, cmdVars, nextId, engine, exitVars, registry, outBuf, errBuf,
                   linesWritten, writtenVars,
                   readerVars, events, callVars>>

TeardownNext == Next \/ \E q \in QueryIds : TaskDropped(q)

TeardownSpec == Init /\ [][TeardownNext]_vars

\* The runtime polls every task that can go on (run_query, the two readers,
\* cancel_query); a killed child is dead before kill().await is over.  One
\* premise about the children is added, the one the source states at the join
\* ("process exit closes the pipes"): a child that closed its stdout exits.
RunQueryStep(q) ==
    \/ SpawnOk(q) \/ SpawnFail(q) \/ Register(q) \/ TakeHandle(q)
    \/ \E status \in WaitResults : WaitReturns(q, status)

StdoutReaderStep(q) == StdoutLine(q) \/ StdoutEof(q)

StderrReaderStep(q) == StderrLine(q) \/ StderrEof(q)

CancelStep(q) == CancelLocked(q) \/ CancelReturns(q)

ExitsAfterClose(q) == ~stdoutOpen[q] /\ ChildExits(q)

TaskStep ==
    \E q \in QueryIds :
        \/ RunQueryStep(q) \/ StdoutReaderStep(q) \/ StderrReaderStep(q)
        \/ CancelStep(q) \/ ExitsAfterClose(q)

Fairness == WF_vars(TaskStep)

FairSpec == Init /\ [][Next]_vars /\ Fairness

\* ------------------------------------------------------ the binary locator
\* Operating systems the source is built for (cfg(target_os)).
OperatingSystems == {"windows", "macos", "linux"}

\* The platform substring looked for in the name of an extension directory.
PlatformTag(os) ==
    CASE os = "windows" -> "win32" [] os = "macos" -> "darwin" [] OTHER -> "linux"

\* Candidate paths, with the home directory written "~".
ExtensionsDir == "~/.vscode/extensions"
ClaudeNpmCmd == "~/AppData/Roaming/npm/claude.cmd"
ClaudeStandalone == "~/.claude/local/claude"
ClaudeBrewPaths == <<"/opt/homebrew/bin/claude", "/usr/local/bin/claude">>
ClaudeCommonPaths == <<"/usr/local/bin/claude", "/usr/bin/claude">>
ClaudeNpmGlobal == "~/.npm-global/bin/claude"
GeminiWinScript == "~/AppData/Roaming/npm/node_modules/@google/gemini-cli/dist/index.js"
NodeNpm == "~/AppData/Roaming/npm/node.exe"
NodeProgramFiles == "C:/Program Files/nodejs/node.exe"
GeminiNpmCmd == "~/AppData/Roaming/npm/gemini.cmd"
GeminiNpmGlobalScript == "~/.npm-global/lib/node_modules/@google/gemini-cli/dist/index.js"
GeminiUsrLibScript == "/usr/local/lib/node_modules/@google/gemini-cli/dist/index.js"
GeminiNpmBin == "~/.npm-global/bin/gemini"
GeminiBrewPaths == <<"/opt/homebrew/bin/gemini", "/usr/local/bin/gemini">>

Range(seq) == {seq[i] : i \in 1..Len(seq)}

\* The paths the locators probe on one OS.
ProbedPaths(os) ==
    CASE os = "windows" ->
            {ClaudeNpmCmd, GeminiWinScript, NodeNpm, NodeProgramFiles, GeminiNpmCmd}
      [] os = "macos" ->
            {ClaudeStandalone, ClaudeNpmGlobal, GeminiNpmGlobalScript,
             GeminiUsrLibScript, GeminiNpmBin}
                \cup Range(ClaudeBrewPaths) \cup Range(GeminiBrewPaths)
      [] OTHER ->
            {ClaudeStandalone, ClaudeNpmGlobal, GeminiNpmGlobalScript,
             GeminiUsrLibScript, GeminiNpmBin} \cup Range(ClaudeCommonPaths)

\* str::starts_with, str::ends_with and str::contains.
StartsWith(str, prefix) ==
    Len(str) >= Len(prefix) /\ SubSeq(str, 1, Len(prefix)) = prefix

EndsWith(str, suffix) ==
    Len(str) >= Len(suffix) /\ SubSeq(str, Len(str) - Len(suffix) + 1, Len(str)) = suffix

Contains(str, part) ==
    \E i \in 1..(Len(str) - Len(part) + 1) : SubSeq(str, i, i + Len(part) - 1) = part

\* An entry of the extensions directory: its name, and whether
\* resources/native-binary/claude(.exe) exists under it.
ExtEntry(name, bin) == [name |-> name, bin |-> bin]

ExtEntries(os) ==
    {ExtEntry("anthropic.claude-code-1.0.0-" \o PlatformTag(os) \o "-x64", TRUE),
     ExtEntry("anthropic.claude-code-2.0.0-" \o PlatformTag(os) \o "-x64", TRUE),
     ExtEntry("anthropic.claude-code-3.0.0-" \o PlatformTag(os) \o "-x64", FALSE),
     ExtEntry("anthropic.claude-code-2.0.0-other-x64", TRUE),
     ExtEntry("ms-python.python-1.0.0-" \o PlatformTag(os) \o "-x64", TRUE)}

\* entry.path().join("resources").join("native-binary").join("claude[.exe]")
ExtBinary(entry, os) ==
    ExtensionsDir \o "/" \o entry.name \o "/resources/native-binary/"
        \o (IF os = "windows" THEN "claude.exe" ELSE "claude")

\* name.starts_with("anthropic.claude-code-") && name.contains(<platform>)
ExtMatches(entry, os) ==
    StartsWith(entry.name, "anthropic.claude-code-")
        /\ Contains(entry.name, PlatformTag(os))

\* The loop over read_dir: the last matching entry whose binary exists.
RECURSIVE BestExtension(_, _, _)
BestExtension(entries, os, best) ==
    IF entries = <<>>
    THEN best
    ELSE BestExtension(Tail(entries), os,
                       IF ExtMatches(Head(entries), os) /\ Head(entries).bin
                       THEN Some(ExtBinary(Head(entries), os))
                       ELSE best)

\* The first path of the list that exists, None when none does.
RECURSIVE FirstExisting(_, _)
FirstExisting(paths, files) ==
    IF paths = <<>> THEN None
    ELSE IF Head(paths) \in files THEN Some(Head(paths))
    ELSE FirstExisting(Tail(paths), files)

\* find_claude_binary
FindClaudeBinary(h) ==
    LET ext == BestExtension(h.extensions, h.os, None)
        probes == CASE h.os = "windows" -> <<ClaudeNpmCmd>>
                    [] h.os = "macos" ->
                         <<ClaudeStandalone>> \o ClaudeBrewPaths \o <<ClaudeNpmGlobal>>
                    [] OTHER ->
                         <<ClaudeStandalone>> \o ClaudeCommonPaths \o <<ClaudeNpmGlobal>>
        found == FirstExisting(probes, h.files)
    IN  IF IsSome(ext) THEN Unwrap(ext)
        ELSE IF IsSome(found) THEN Unwrap(found)
        ELSE "claude"

\* find_gemini_binary: the pair (executable, pre_args).
\* A locator of the gemini engine that tries the wrapper of the npm prefix
\* before the scripts of the global packages.
FindGeminiWrapperFirst(h) ==
    IF h.os = "windows"
    THEN IF GeminiNpmCmd \in h.files THEN <<GeminiNpmCmd, <<>>>>
         ELSE IF GeminiWinScript \in h.files
              THEN <<"node", <<GeminiWinScript>>>>
         ELSE <<"gemini", <<>>>>
    ELSE IF GeminiNpmBin \in h.files THEN <<GeminiNpmBin, <<>>>>
         ELSE IF GeminiNpmGlobalScript \in h.files
              THEN <<"node", <<GeminiNpmGlobalScript>>>>
         ELSE IF GeminiUsrLibScript \in h.files
              THEN <<"node", <<GeminiUsrLibScript>>>>
         ELSE <<"gemini", <<>>>>

FindGeminiBinary(h) ==
    IF h.os = "windows"
    THEN IF GeminiWinScript \in h.files
         THEN IF NodeNpm \in h.files THEN <<NodeNpm, <<GeminiWinScript>>>>
              ELSE IF NodeProgramFiles \in h.files
                   THEN <<NodeProgramFiles, <<GeminiWinScript>>>>
              ELSE <<"node", <<GeminiWinScript>>>>
         ELSE IF GeminiNpmCmd \in h.files THEN <<GeminiNpmCmd, <<>>>>
         ELSE <<"gemini", <<>>>>
    ELSE IF GeminiNpmGlobalScript \in h.files
         THEN <<"node", <<GeminiNpmGlobalScript>>>>
         ELSE IF GeminiUsrLibScript \in h.files
              THEN <<"node", <<GeminiUsrLibScript>>>>
         ELSE IF GeminiNpmBin \in h.files THEN <<GeminiNpmBin, <<>>>>
         ELSE LET brew == IF h.os = "macos"
                          THEN FirstExisting(GeminiBrewPaths, h.files)
                          ELSE None
              IN  IF IsSome(brew) THEN <<Unwrap(brew), <<>>>>
                  ELSE <<"gemini", <<>>>>

\* ----------------------------------------------------- the command builder
\* The length up to which the message of the claude engine is an argument.
StdinThreshold == 6000

\* Messages of 2, 5999, 6000 and 6001 bytes.
Bytes10 == "0123456789"
Bytes100 == Bytes10 \o Bytes10 \o Bytes10 \o Bytes10 \o Bytes10
                \o Bytes10 \o Bytes10 \o Bytes10 \o Bytes10 \o Bytes10
Bytes1000 == Bytes100 \o Bytes100 \o Bytes100 \o Bytes100 \o Bytes100
                 \o Bytes100 \o Bytes100 \o Bytes100 \o Bytes100 \o Bytes100
Bytes5990 == Bytes1000 \o Bytes1000 \o Bytes1000 \o Bytes1000 \o Bytes1000
                 \o Bytes100 \o Bytes100 \o Bytes100 \o Bytes100 \o Bytes100
                 \o Bytes100 \o Bytes100 \o Bytes100 \o Bytes100
                 \o Bytes10 \o Bytes10 \o Bytes10 \o Bytes10 \o Bytes10
                 \o Bytes10 \o Bytes10 \o Bytes10 \o Bytes10
Messages == {"hi", Bytes5990 \o "012345678", Bytes5990 \o Bytes10,
             Bytes5990 \o Bytes10 \o "0"}

\* The QueryConfig values a command is built from.
Configs ==
    [message : Messages,
     model : {None, Some("opus")},
     mcp_config : {None, Some("mcp.json")},
     system_prompt : {None, Some("be brief")},
     session_id : {None, Some("sess-1")},
     resume : BOOLEAN,
     engine : Engines,
     max_turns : {None, Some(12)},
     tools : {None, Some("")},
     strict_mcp : BOOLEAN,
     permission_mode : {None, Some("acceptEdits")},
     cwd : {None, Some("/proj")}]

\* u32::to_string
DecimalDigits == <<"0", "1", "2", "3", "4", "5", "6", "7", "8", "9">>

RECURSIVE U32ToString(_)
U32ToString(n) ==
    IF n < 10 THEN DecimalDigits[n + 1]
    ELSE U32ToString(n \div 10) \o DecimalDigits[(n % 10) + 1]

\* Mutant of OptArgs: an empty value is taken for an absent one.
OptArgsNonEmpty(flag, opt) ==
    IF IsSome(opt) /\ Unwrap(opt) # "" THEN <<flag, Unwrap(opt)>> ELSE <<>>

\* cmd.arg(flag).arg(value) when the option is set.
OptArgs(flag, opt) == IF IsSome(opt) THEN <<flag, Unwrap(opt)>> ELSE <<>>

\* Mutant of ResumeArgs: the resume flag of the config is not looked at.
ResumeArgsWheneverSession(flag, c) ==
    IF IsSome(c.session_id) THEN <<flag, Unwrap(c.session_id)>> ELSE <<>>

\* if let Some(ref sid) = config.session_id { if config.resume { ... } }
ResumeArgs(flag, c) ==
    IF IsSome(c.session_id) /\ c.resume
    THEN <<flag, Unwrap(c.session_id)>>
    ELSE <<>>

\* Mutant of FullMessage: the system prompt is left out.
FullMessageBare(c) == c.message

\* Gemini: the system prompt is put in front of the message.
FullMessage(c) ==
    IF IsSome(c.system_prompt)
    THEN "[System Instructions]\n" \o Unwrap(c.system_prompt)
             \o "\n\n[User Message]\n" \o c.message
    ELSE c.message

GeminiArgs(c) ==
    <<"--prompt", FullMessage(c), "--output-format", "stream-json", "--yolo">>
        \o OptArgs("--model", c.model)
        \o ResumeArgs("--resume", c)

\* Mutant of PositionalMessage: the message is an argument at any length.
PositionalMessageAlways(c) == <<c.message>>

\* Claude: the message is the last argument unless it is long.
PositionalMessage(c) ==
    IF Len(c.message) <= StdinThreshold THEN <<c.message>> ELSE <<>>

ClaudeArgs(c) ==
    <<"-p", "--verbose", "--output-format", "stream-json">>
        \o OptArgs("--model", c.model)
        \o OptArgs("--mcp-config", c.mcp_config)
        \o OptArgs("--system-prompt", c.system_prompt)
        \o (IF IsSome(c.max_turns)
            THEN <<"--max-turns", U32ToString(Unwrap(c.max_turns))>> ELSE <<>>)
        \o OptArgs("--tools", c.tools)
        \o (IF c.strict_mcp THEN <<"--strict-mcp-config">> ELSE <<>>)
        \o OptArgs("--permission-mode", c.permission_mode)
        \o ResumeArgs("-r", c)
        \o PositionalMessage(c)

\* Mutant of PipeStdin: the length of the message is not looked at.
PipeStdinAnyLength(c) == ~IsGemini(c.engine)

\* let pipe_stdin = !is_gemini && config.message.len() > 6000
PipeStdin(c) == ~IsGemini(c.engine) /\ Len(c.message) > StdinThreshold

\* A .cmd wrapper is run through cmd.exe /c.
IsCmd(binary) == EndsWith(binary, ".cmd")

\* --------------------------------------------- run_query up to the spawn
MaxExtensions == 2  \* entries of the extensions directory

Hosts ==
    UNION {[os : {os},
            extensions : SeqsUpTo(ExtEntries(os), MaxExtensions),
            files : SUBSET ProbedPaths(os)] : os \in OperatingSystems}

\* Hosts for the builder: nothing installed, .cmd wrappers, a node script.
BuilderHosts ==
    {[os |-> "linux", extensions |-> <<>>, files |-> {}],
     [os |-> "windows", extensions |-> <<>>, files |-> {ClaudeNpmCmd, GeminiNpmCmd}],
     [os |-> "linux", extensions |-> <<>>,
      files |-> {ClaudeStandalone, GeminiNpmGlobalScript}]}

\* Configs for the locator: a short message and no option, for either engine.
LocatorConfigs ==
    {c \in Configs :
        /\ c.message = "hi" /\ c.model = None /\ c.mcp_config = None
        /\ c.system_prompt = None /\ c.session_id = None /\ ~c.resume
        /\ c.max_turns = None /\ c.tools = None /\ ~c.strict_mcp
        /\ c.permission_mode = None /\ c.cwd = None}

NewCommand ==
    [stage |-> "new", binary |-> "", preArgs |-> <<>>, program |-> "",
     args |-> <<>>, cwd |-> None, stdin |-> "unset", envRemoved |-> {},
     killOnDrop |-> FALSE, stdinOpen |-> FALSE, stdinWritten |-> ""]

CommandInit ==
    /\ SupervisorInit
    /\ \/ config \in Configs /\ host \in BuilderHosts
       \/ config \in LocatorConfigs /\ host \in Hosts
    /\ cmd = NewCommand
    /\ activeProjectRoot = None
    /\ StoresIdle

supervisorVars ==
    <<nextId, engine, pc, registry, lock, procVars, readerVars, exitVars, events,
      callVars>>

\* The binary of the engine is looked up.
Locate ==
    /\ cmd.stage = "new"
    /\ LET located == IF IsGemini(config.engine)
                      THEN FindGeminiBinary(host)
                      ELSE <<FindClaudeBinary(host), <<>>>>
       IN  cmd' = [cmd EXCEPT !.stage = "located",
                              !.binary = located[1],
                              !.preArgs = located[2]]
    /\ UNCHANGED <<storeVars, supervisorVars, config, host, activeProjectRoot>>

\* Command::new, the arguments of the engine, the working directory, the
\* environment, the three stdio handles and kill_on_drop.
BuildCommand ==
    /\ cmd.stage = "located"
    /\ cmd' = [cmd EXCEPT
            !.stage = "built",
            !.program = IF IsCmd(cmd.binary) THEN "cmd.exe" ELSE cmd.binary,
            !.args = (IF IsCmd(cmd.binary) THEN <<"/c", cmd.binary>> ELSE <<>>)
                        \o cmd.preArgs
                        \o (IF IsGemini(config.engine)
                            THEN GeminiArgs(config) ELSE ClaudeArgs(config)),
            !.cwd = config.cwd,
            !.envRemoved = {"CLAUDECODE", "CLAUDE_CODE_ENTRY_POINT"},
            !.stdin = IF PipeStdin(config) THEN "piped" ELSE "null",
            !.killOnDrop = TRUE]
    /\ UNCHANGED <<storeVars, supervisorVars, config, host, activeProjectRoot>>

\* cmd.spawn() succeeds; with a piped stdin its handle goes to a writer task.
CommandSpawned ==
    /\ cmd.stage = "built"
    /\ cmd' = [cmd EXCEPT !.stage = "spawned", !.stdinOpen = (cmd.stdin = "piped")]
    /\ UNCHANGED <<storeVars, supervisorVars, config, host, activeProjectRoot>>

\* cmd.spawn() fails: run_query returns the error.
CommandSpawnFailed ==
    /\ cmd.stage = "built"
    /\ cmd' = [cmd EXCEPT !.stage = "failed"]
    /\ UNCHANGED <<storeVars, supervisorVars, config, host, activeProjectRoot>>

\* The writer task: stdin_handle.write_all(&msg_bytes)
StdinWrite ==
    /\ cmd.stage = "spawned"
    /\ cmd.stdinOpen
    /\ cmd' = [cmd EXCEPT !.stage = "written", !.stdinWritten = @ \o config.message]
    /\ UNCHANGED <<storeVars, supervisorVars, config, host, activeProjectRoot>>

\* The writer task ends: the handle is dropped, which closes the pipe.
StdinClose ==
    /\ cmd.stage = "written"
    /\ cmd' = [cmd EXCEPT !.stage = "closed", !.stdinOpen = FALSE]
    /\ UNCHANGED <<storeVars, supervisorVars, config, host, activeProjectRoot>>

CommandNext ==
    \/ Locate
    \/ BuildCommand
    \/ CommandSpawned
    \/ CommandSpawnFailed
    \/ StdinWrite
    \/ StdinClose

CommandSpec == CommandInit /\ [][CommandNext]_vars

\* ------------------------------------------- send_query and the project root
ProjectRoots == {None, Some("/root-a"), Some("/root-b")}

\* The configs send_query is called with: either engine, a short or a long
\* message, with and without a working directory.
SubmitConfigs ==
    {c \in Configs :
        /\ Len(c.message) \in {2, StdinThreshold + 1} /\ c.model = None /\ c.mcp_config = None
        /\ c.system_prompt = None /\ c.session_id = None /\ ~c.resume
        /\ c.max_turns = None /\ c.tools = None /\ ~c.strict_mcp
        /\ c.permission_mode = None}

\* send_query has been called with config and has not read the project root yet.
SubmitInit ==
    /\ SupervisorInit
    /\ config \in SubmitConfigs
    /\ host \in BuilderHosts
    /\ cmd = [NewCommand EXCEPT !.stage = "called"]
    /\ activeProjectRoot \in ProjectRoots
    /\ StoresIdle

\* Mutant of InjectProjectRoot: the active project root overrides the working
\* directory of the caller.
InjectProjectRootAlways ==
    /\ cmd.stage = "called"
    /\ config' = IF IsSome(activeProjectRoot)
                 THEN [config EXCEPT !.cwd = activeProjectRoot]
                 ELSE config
    /\ cmd' = [cmd EXCEPT !.stage = "new"]
    /\ UNCHANGED <<storeVars, supervisorVars, host, activeProjectRoot>>

\* send_query: a config without a working directory gets the active project
\* root, if there is one; run_query is then started with this config.
InjectProjectRoot ==
    /\ cmd.stage = "called"
    /\ config' = IF config.cwd = None /\ IsSome(activeProjectRoot)
                 THEN [config EXCEPT !.cwd = activeProjectRoot]
                 ELSE config
    /\ cmd' = [cmd EXCEPT !.stage = "new"]
    /\ UNCHANGED <<storeVars, supervisorVars, host, activeProjectRoot>>

\* set_active_project(id, root_path)
SetActiveProject(rootPath) ==
    /\ activeProjectRoot' = rootPath
    /\ UNCHANGED <<storeVars, supervisorVars, config, host, cmd>>

SubmitNext ==
    \/ InjectProjectRoot
    \/ \E rootPath \in ProjectRoots : SetActiveProject(rootPath)
    \/ CommandNext

SubmitSpec == SubmitInit /\ [][SubmitNext]_vars

\* --------------------------------------------------------- the sessions store
MaxSessionCalls == 3  \* calls of the session commands in one behaviour

SessionIds == {"s1", "s2"}
Titles == {"a", "b"}

\* A SessionData and the SessionIndex made from it, by the fields the commands
\* look at (the others are copied from the one to the other).
Session(id, title, pinned) == [id |-> id, title |-> title, pinned |-> pinned]

\* index.iter().position(|s| s.id == id), 0 for None
RECURSIVE IndexPosition(_, _)
IndexPosition(index, id) ==
    IF index = <<>> THEN 0
    ELSE IF index[1].id = id THEN 1
    ELSE LET rest == IndexPosition(Tail(index), id)
         IN  IF rest = 0 THEN 0 ELSE rest + 1

\* save_session_file that puts its entry at the front whether or not the
\* index has one for the id.
SaveEntryInsert(index, session) == <<session>> \o index

\* save_session_file on the index it has read: the entry takes the place of
\* the one with its id, keeping that one's pin, or goes to the front.
SaveEntry(index, session) ==
    LET pos == IndexPosition(index, session.id)
    IN  IF pos # 0
        THEN IF ~session.pinned /\ index[pos].pinned
             THEN [index EXCEPT ![pos] = [session EXCEPT !.pinned = TRUE]]
             ELSE [index EXCEPT ![pos] = session]
        ELSE <<session>> \o index

\* index.retain(|s| s.id != id)
Retain(index, id) == SelectSeq(index, LAMBDA e : e.id # id)

\* index.iter_mut().find(|s| s.id == id): entry.title = title
SetTitle(index, id, title) ==
    LET pos == IndexPosition(index, id)
    IN  IF pos # 0 THEN [index EXCEPT ![pos].title = title] ELSE index

\* index.iter_mut().find(|s| s.id == id): entry.pinned = !entry.pinned
TogglePinned(index, id) ==
    LET pos == IndexPosition(index, id)
    IN  [index EXCEPT ![pos].pinned = ~@]

\* The calls a frontend can make.
SessionRequests ==
    [op : {"save_session_file"}, id : SessionIds, title : Titles, pinned : BOOLEAN]
        \cup [op : {"delete_session_file", "toggle_session_pin"}, id : SessionIds,
              title : {""}, pinned : {FALSE}]
        \cup [op : {"update_session_title"}, id : SessionIds, title : Titles,
              pinned : {FALSE}]

\* Where a call starts.
FirstStep(op) ==
    CASE op = "save_session_file" -> "writeData"
      [] op = "delete_session_file" -> "removeData"
      [] OTHER -> "readIndex"

Running(call) == call.at \notin {"done", "failed"}

\* The stores are empty and no call has been made.
SessionsInit ==
    /\ SupervisorInit
    /\ config = NoCommand /\ host = NoCommand /\ cmd = NoCommand
    /\ activeProjectRoot = NoCommand
    /\ sessionsIndex = <<>>
    /\ sessionFiles = [id \in SessionIds |-> None]
    /\ sessionCalls = <<>>
    /\ SettingsIdle
    /\ SearchIdle

notSessionVars == <<supervisorVars, cmdVars, settingsVars, searchVars>>

\* A command is invoked: its task starts.
SessionCall(request) ==
    /\ Len(sessionCalls) < MaxSessionCalls
    /\ sessionCalls' = Append(sessionCalls,
            [op |-> request.op, id |-> request.id, title |-> request.title,
             pinned |-> request.pinned, at |-> FirstStep(request.op),
             index |-> <<>>, data |-> None])
    /\ UNCHANGED <<notSessionVars, sessionsIndex, sessionFiles>>

\* save_session_file: std::fs::write(&file_path, &data_json)
WriteSessionFile(k) ==
    LET call == sessionCalls[k] IN
    /\ call.at = "writeData"
    /\ sessionFiles' = [sessionFiles EXCEPT
            ![call.id] = Some(Session(call.id, call.title, call.pinned))]
    /\ sessionCalls' = [sessionCalls EXCEPT ![k].at = "readIndex"]
    /\ UNCHANGED <<notSessionVars, sessionsIndex>>

\* delete_session_file: std::fs::remove_file(&path) if the file exists
RemoveSessionFile(k) ==
    LET call == sessionCalls[k] IN
    /\ call.at = "removeData"
    /\ sessionFiles' = [sessionFiles EXCEPT ![call.id] = None]
    /\ sessionCalls' = [sessionCalls EXCEPT ![k].at = "readIndex"]
    /\ UNCHANGED <<notSessionVars, sessionsIndex>>

\* list_sessions_internal(), and what the command does to its copy of the
\* index before it writes it.  toggle_session_pin returns Err when the copy
\* has no entry for the id.
ReadSessionsIndex(k) ==
    LET call == sessionCalls[k]
        found == IndexPosition(sessionsIndex, call.id) # 0
        copy == CASE call.op = "save_session_file" ->
                         SaveEntry(sessionsIndex,
                                   Session(call.id, call.title, call.pinned))
                  [] call.op = "delete_session_file" -> Retain(sessionsIndex, call.id)
                  [] call.op = "update_session_title" ->
                         SetTitle(sessionsIndex, call.id, call.title)
                  [] OTHER -> IF found THEN TogglePinned(sessionsIndex, call.id)
                              ELSE <<>>
    IN
    /\ call.at = "readIndex"
    /\ sessionCalls' =
           IF call.op = "toggle_session_pin" /\ ~found
           THEN [sessionCalls EXCEPT ![k].at = "failed"]
           ELSE [sessionCalls EXCEPT ![k].at = "writeIndex", ![k].index = copy]
    /\ UNCHANGED <<notSessionVars, sessionsIndex, sessionFiles>>

\* write_sessions_index(&index)
WriteSessionsIndex(k) ==
    LET call == sessionCalls[k] IN
    /\ call.at = "writeIndex"
    /\ sessionsIndex' = call.index
    /\ sessionCalls' =
           [sessionCalls EXCEPT
               ![k].at = IF call.op \in {"update_session_title", "toggle_session_pin"}
                         THEN "readData" ELSE "done",
               ![k].index = <<>>,
               ![k].pinned = IF call.op = "toggle_session_pin"
                             THEN call.index[IndexPosition(call.index, call.id)].pinned
                             ELSE @]
    /\ UNCHANGED <<notSessionVars, sessionFiles>>

\* update_session_title, toggle_session_pin: the data file, if it exists, is
\* read and its title (its pinned flag) is set in the copy.
ReadSessionFile(k) ==
    LET call == sessionCalls[k]
        file == sessionFiles[call.id]
    IN
    /\ call.at = "readData"
    /\ sessionCalls' =
           IF file = None
           THEN [sessionCalls EXCEPT ![k].at = "done"]
           ELSE [sessionCalls EXCEPT
                    ![k].at = "updateData",
                    ![k].data = IF call.op = "update_session_title"
                                THEN Some([Unwrap(file) EXCEPT !.title = call.title])
                                ELSE Some([Unwrap(file) EXCEPT !.pinned = call.pinned])]
    /\ UNCHANGED <<notSessionVars, sessionsIndex, sessionFiles>>

\* std::fs::write(&path, updated)
UpdateSessionFile(k) ==
    LET call == sessionCalls[k] IN
    /\ call.at = "updateData"
    /\ sessionFiles' = [sessionFiles EXCEPT ![call.id] = call.data]
    /\ sessionCalls' = [sessionCalls EXCEPT ![k].at = "done", ![k].data = None]
    /\ UNCHANGED <<notSessionVars, sessionsIndex>>

\* The commands run as tasks of a multi-threaded runtime: a call may be made
\* while others are under way.
SessionsNext ==
    \/ \E request \in SessionRequests : SessionCall(request)
    \/ \E k \in 1..Len(sessionCalls) : WriteSessionFile(k)
    \/ \E k \in 1..Len(sessionCalls) : RemoveSessionFile(k)
    \/ \E k \in 1..Len(sessionCalls) : ReadSessionsIndex(k)
    \/ \E k \in 1..Len(sessionCalls) : WriteSessionsIndex(k)
    \/ \E k \in 1..Len(sessionCalls) : ReadSessionFile(k)
    \/ \E k \in 1..Len(sessionCalls) : UpdateSessionFile(k)

SessionsSpec == SessionsInit /\ [][SessionsNext]_vars

\* The commands are called one at a time: a call is made when no other call
\* is under way.
NoCallRunning == \A k \in 1..Len(sessionCalls) : ~Running(sessionCalls[k])

SerialSessionCall(request) == NoCallRunning /\ SessionCall(request)

SerialSessionsNext ==
    \/ \E request \in SessionRequests : SerialSessionCall(request)
    \/ \E k \in 1..Len(sessionCalls) : WriteSessionFile(k)
    \/ \E k \in 1..Len(sessionCalls) : RemoveSessionFile(k)
    \/ \E k \in 1..Len(sessionCalls) : ReadSessionsIndex(k)
    \/ \E k \in 1..Len(sessionCalls) : WriteSessionsIndex(k)
    \/ \E k \in 1..Len(sessionCalls) : ReadSessionFile(k)
    \/ \E k \in 1..Len(sessionCalls) : UpdateSessionFile(k)

SerialSessionsSpec == SessionsInit /\ [][SerialSessionsNext]_vars

(***************************************************************************)
(* The settings: four fields of AppState, each behind its own Mutex, and   *)
(* settings.json.  save_settings and save_projects store the fields they   *)
(* own, read the other two and write the whole Settings to disk; every     *)
(* lock is held for one statement.                                         *)
(***************************************************************************)
MaxSettingsCalls == 2

Project(id, rootPath) == [id |-> id, root_path |-> rootPath]

ProjectLists == {<<>>, <<Project("p1", "/root-a")>>}

ProjectIds == {None, Some("p1")}

VaultPaths == {None, Some("/vault")}

SettingsOf(closeToTray, vaultPath, projects, activeProjectId) ==
    [close_to_tray |-> closeToTray, vault_path |-> vaultPath,
     projects |-> projects, active_project_id |-> activeProjectId]

\* impl Default for Settings
DefaultSettings == SettingsOf(TRUE, None, <<>>, None)

\* settings.json when the application starts: absent (the defaults are
\* loaded) or left by an earlier run.
InitialSettings ==
    {DefaultSettings, SettingsOf(FALSE, None, <<Project("p1", "/root-a")>>, Some("p1"))}

\* run(): the root of the active project, None when the id matches no project
InitialProjectRoot(settings) ==
    IF settings.active_project_id = None
    THEN None
    ELSE LET found == SelectSeq(settings.projects,
                          LAMBDA p : p.id = Unwrap(settings.active_project_id))
         IN  IF found = <<>> THEN None ELSE Some(found[1].root_path)

SettingsFields == {"close_to_tray", "vault_path", "projects", "active_project_id"}

\* Commands that write the Settings of their argument without reading the
\* fields they do not own.
SettingsStepsNoLoad(op) ==
    CASE op = "save_settings" ->
             << <<"store", "close_to_tray">>, <<"store", "vault_path">>, <<"write", "">> >>
      [] op = "save_projects" ->
             << <<"store", "projects">>, <<"store", "active_project_id">>,
                <<"write", "">> >>
      [] OTHER ->
             << <<"store", "active_project_id">>, <<"root", "">> >>

\* The statements of a command, in order: a field of AppState is stored from
\* the argument or loaded into the Settings to write, the Settings is
\* written, active_project_root is stored.
SettingsSteps(op) ==
    CASE op = "save_settings" ->
             << <<"store", "close_to_tray">>, <<"store", "vault_path">>,
                <<"load", "projects">>, <<"load", "active_project_id">>,
                <<"write", "">> >>
      [] op = "save_projects" ->
             << <<"store", "projects">>, <<"store", "active_project_id">>,
                <<"load", "close_to_tray">>, <<"load", "vault_path">>,
                <<"write", "">> >>
      [] OTHER ->
             << <<"store", "active_project_id">>, <<"root", "">> >>

\* The fields a command stores from its argument.
Owned(op) ==
    {field \in SettingsFields :
        \E i \in 1..Len(SettingsSteps(op)) : SettingsSteps(op)[i] = <<"store", field>>}

SettingsRequests ==
    {[op |-> "save_settings", arg |-> SettingsOf(c, v, p, None), root |-> None] :
        c \in BOOLEAN, v \in VaultPaths, p \in ProjectLists}
    \cup {[op |-> "save_projects", arg |-> SettingsOf(TRUE, None, p, a), root |-> None] :
            p \in ProjectLists, a \in ProjectIds}
    \cup {[op |-> "set_active_project", arg |-> SettingsOf(TRUE, None, <<>>, a[1]),
           root |-> a[2]] :
            a \in {<<None, None>>, <<Some("p1"), Some("/root-a")>>,
                   <<Some("p1"), Some("/root-b")>>}}

SettingsInit ==
    /\ SupervisorInit
    /\ config = NoCommand /\ host = NoCommand /\ cmd = NoCommand
    /\ disk \in InitialSettings
    /\ memory = disk
    /\ activeProjectRoot = InitialProjectRoot(disk)
    /\ settingsCalls = <<>>
    /\ SessionsIdle
    /\ SearchIdle

notSettingsVars == <<supervisorVars, config, host, cmd, sessionVars, searchVars>>

StepOf(call) == SettingsSteps(call.op)[call.pc]

Returned(call) == call.pc > Len(SettingsSteps(call.op))

\* A command is invoked: its task starts.
SettingsCall(request) ==
    /\ Len(settingsCalls) < MaxSettingsCalls
    /\ settingsCalls' = Append(settingsCalls,
            [op |-> request.op, arg |-> request.arg, root |-> request.root,
             pc |-> 1, work |-> request.arg])
    /\ UNCHANGED <<notSettingsVars, activeProjectRoot, memory, disk>>

\* *state.field.lock().unwrap() = the argument's field
StoreField(k) ==
    LET call == settingsCalls[k] IN
    /\ ~Returned(call)
    /\ StepOf(call)[1] = "store"
    /\ memory' = [memory EXCEPT ![StepOf(call)[2]] = call.arg[StepOf(call)[2]]]
    /\ settingsCalls' = [settingsCalls EXCEPT ![k].pc = @ + 1]
    /\ UNCHANGED <<notSettingsVars, activeProjectRoot, disk>>

\* let field = state.field.lock().unwrap().clone()
LoadField(k) ==
    LET call == settingsCalls[k] IN
    /\ ~Returned(call)
    /\ StepOf(call)[1] = "load"
    /\ settingsCalls' = [settingsCalls EXCEPT
            ![k].pc = @ + 1,
            ![k].work = [@ EXCEPT ![StepOf(call)[2]] = memory[StepOf(call)[2]]]]
    /\ UNCHANGED <<notSettingsVars, activeProjectRoot, memory, disk>>

\* save_settings_to_disk(&Settings { .. }), the write succeeding
SaveSettingsToDisk(k) ==
    LET call == settingsCalls[k] IN
    /\ ~Returned(call)
    /\ StepOf(call)[1] = "write"
    /\ disk' = call.work
    /\ settingsCalls' = [settingsCalls EXCEPT ![k].pc = @ + 1]
    /\ UNCHANGED <<notSettingsVars, activeProjectRoot, memory>>

\* set_active_project: *state.active_project_root.lock().unwrap() = root_path
StoreActiveProjectRoot(k) ==
    LET call == settingsCalls[k] IN
    /\ ~Returned(call)
    /\ StepOf(call)[1] = "root"
    /\ activeProjectRoot' = call.root
    /\ settingsCalls' = [settingsCalls EXCEPT ![k].pc = @ + 1]
    /\ UNCHANGED <<notSettingsVars, memory, disk>>

\* The commands run as tasks of a multi-threaded runtime: a call may be made
\* while others are under way.
SettingsNext ==
    \/ \E request \in SettingsRequests : SettingsCall(request)
    \/ \E k \in 1..Len(settingsCalls) : StoreField(k)
    \/ \E k \in 1..Len(settingsCalls) : LoadField(k)
    \/ \E k \in 1..Len(settingsCalls) : SaveSettingsToDisk(k)
    \/ \E k \in 1..Len(settingsCalls) : StoreActiveProjectRoot(k)

SettingsSpec == SettingsInit /\ [][SettingsNext]_vars

\* The commands are called one at a time.
NoSettingsCallRunning == \A k \in 1..Len(settingsCalls) : Returned(settingsCalls[k])

SerialSettingsCall(request) == NoSettingsCallRunning /\ SettingsCall(request)

SerialSettingsNext ==
    \/ \E request \in SettingsRequests : SerialSettingsCall(request)
    \/ \E k \in 1..Len(settingsCalls) : StoreField(k)
    \/ \E k \in 1..Len(settingsCalls) : LoadField(k)
    \/ \E k \in 1..Len(settingsCalls) : SaveSettingsToDisk(k)
    \/ \E k \in 1..Len(settingsCalls) : StoreActiveProjectRoot(k)

SerialSettingsSpec == SettingsInit /\ [][SerialSettingsNext]_vars

(***************************************************************************)
(* The vector index of the semantic search: chunk ids, their vectors in    *)
(* one flat Vec<f32>, and one ChunkMeta per chunk.                         *)
(***************************************************************************)
Dimension == 2
MaxBatches == 3
MaxBatchLen == 2

ChunkIds == {"c1", "c2"}

\* The embeddings of the texts: vectors of Dimension components.
Vector(first) == [i \in 1..Dimension |-> IF i = 1 THEN first ELSE 1 - first]

Vectors == {Vector(0), Vector(1)}

ContentHashes == {"h1", "h2"}

ChunkMeta(id, contentHash) == [id |-> id, source |-> "a.md", content_hash |-> contentHash]

\* VectorIndex::new()
NewIndex == [ids |-> <<>>, vectors |-> <<>>, meta |-> <<>>, dimension |-> Dimension]

\* self.ids.iter().position(|x| x == id): the first position, 0 for None
RECURSIVE PositionFrom(_, _, _)
PositionFrom(ids, id, i) ==
    IF i > Len(ids) THEN 0
    ELSE IF ids[i] = id THEN i
    ELSE PositionFrom(ids, id, i + 1)

Position(ids, id) == PositionFrom(ids, id, 1)

\* Vec::remove(pos), pos counted from 1
Remove(seq, pos) == SubSeq(seq, 1, pos - 1) \o SubSeq(seq, pos + 1, Len(seq))

\* Vec::drain(start..start + count), start counted from 0
Drain(seq, start, count) ==
    SubSeq(seq, 1, start) \o SubSeq(seq, start + count + 1, Len(seq))

\* The body of the loop of add_batch that keeps the old version of the chunk.
AddChunkKeepOld(index, id, vector, meta) ==
    [index EXCEPT !.ids = Append(@, id),
                  !.vectors = @ \o vector,
                  !.meta = Append(@, [meta EXCEPT !.id = id])]

\* The body of the loop of add_batch for chunk i of the batch: the old
\* version of the chunk is removed, the new one is pushed.
AddChunk(index, id, vector, meta) ==
    LET pos == Position(index.ids, id)
        without ==
            IF pos # 0
            THEN [index EXCEPT !.ids = Remove(@, pos),
                               !.vectors = Drain(@, (pos - 1) * index.dimension,
                                                 index.dimension),
                               !.meta = Remove(@, pos)]
            ELSE index
    IN  [without EXCEPT !.ids = Append(@, id),
                        !.vectors = @ \o vector,
                        !.meta = Append(@, [meta EXCEPT !.id = id])]

RECURSIVE AddBatchFrom(_, _, _, _, _)
AddBatchFrom(index, ids, vectors, meta, i) ==
    IF i > Len(ids) THEN index
    ELSE AddBatchFrom(AddChunk(index, ids[i], vectors[i], meta[i]),
                      ids, vectors, meta, i + 1)

\* VectorIndex::add_batch(&mut self, ids, vectors, meta)
AddBatch(index, ids, vectors, meta) == AddBatchFrom(index, ids, vectors, meta, 1)

\* The batches add_batch is given: one vector of Dimension components and
\* one ChunkMeta for each id, as embed_chunks builds them; an id may come
\* twice in a batch.
Batches ==
    {[ids |-> [i \in DOMAIN chunks |-> chunks[i][1]],
      vectors |-> [i \in DOMAIN chunks |-> chunks[i][2]],
      meta |-> [i \in DOMAIN chunks |-> ChunkMeta(chunks[i][1], chunks[i][3])]] :
        chunks \in SeqsUpTo(ChunkIds \X Vectors \X ContentHashes, MaxBatchLen)
                       \ {<<>>}}

VectorIndexInit ==
    /\ SupervisorInit
    /\ config = NoCommand /\ host = NoCommand /\ cmd = NoCommand
    /\ activeProjectRoot = NoCommand
    /\ SessionsIdle
    /\ SettingsIdle
    /\ embedderModel = NoCommand
    /\ searchLocks = NoCommand
    /\ embeddingStatus = NoCommand
    /\ vectorFiles = NoCommand
    /\ searchCalls = NoCommand
    /\ vectorIndex = NewIndex
    /\ batches = <<>>

notSearchVars == <<supervisorVars, cmdVars, sessionVars, settingsVars>>

\* index.add_batch(&ids, &embeddings, meta)
AddBatchCall(batch) ==
    /\ Len(batches) < MaxBatches
    /\ vectorIndex' = AddBatch(vectorIndex, batch.ids, batch.vectors, batch.meta)
    /\ batches' = Append(batches, batch)
    /\ UNCHANGED <<notSearchVars, embedderModel, searchLocks, embeddingStatus,
                   vectorFiles, searchCalls>>

VectorIndexNext == \E batch \in Batches : AddBatchCall(batch)

VectorIndexSpec == VectorIndexInit /\ [][VectorIndexNext]_vars

(***************************************************************************)
(* The commands of the semantic search.  SearchState has three locks: the  *)
(* embedder and the index behind a tokio Mutex, the status behind a std    *)
(* Mutex.  A guard is dropped at the end of its block: where the command   *)
(* returns, or for the status of embed_chunks at the end of the inner      *)
(* block.                                                                  *)
(***************************************************************************)
MaxSearchCalls == 3

Locks == {"embedder", "index", "status"}

Unlocked == 0

\* search_vectors that locks the index before the embedder.
SearchStepsIndexFirst(op) ==
    CASE op = "init_embedding_model" ->
             << <<"lock", "embedder">>, <<"do", "try_new">>, <<"lock", "index">>,
                <<"do", "load">>, <<"lock", "status">>, <<"do", "status">>,
                <<"do", "return">> >>
      [] op = "embed_chunks" ->
             << <<"lock", "embedder">>, <<"do", "embed">>, <<"lock", "index">>,
                <<"do", "add_batch">>, <<"lock", "status">>, <<"do", "status">>,
                <<"do", "save">>, <<"do", "return">> >>
      [] op = "search_vectors" ->
             << <<"lock", "index">>, <<"lock", "embedder">>, <<"do", "embed">>,
                <<"do", "search">>, <<"do", "return">> >>
      [] OTHER ->
             << <<"lock", "status">>, <<"do", "status">>, <<"do", "return">> >>

\* The statements of a command, in order: a lock is taken, or a part of the
\* command runs with the locks taken so far.
SearchSteps(op) ==
    CASE op = "init_embedding_model" ->
             << <<"lock", "embedder">>, <<"do", "try_new">>, <<"lock", "index">>,
                <<"do", "load">>, <<"lock", "status">>, <<"do", "status">>,
                <<"do", "return">> >>
      [] op = "embed_chunks" ->
             << <<"lock", "embedder">>, <<"do", "embed">>, <<"lock", "index">>,
                <<"do", "add_batch">>, <<"lock", "status">>, <<"do", "status">>,
                <<"do", "save">>, <<"do", "return">> >>
      [] op = "search_vectors" ->
             << <<"lock", "embedder">>, <<"do", "embed">>, <<"lock", "index">>,
                <<"do", "search">>, <<"do", "return">> >>
      [] OTHER ->
             << <<"lock", "status">>, <<"do", "status">>, <<"do", "return">> >>

SearchStepOf(call) == SearchSteps(call.op)[call.pc]

SearchReturned(call) == call.pc > Len(SearchSteps(call.op))

At(k, step) == ~SearchReturned(searchCalls[k]) /\ SearchStepOf(searchCalls[k]) = step

\* The position of a statement in a command.
StepIndex(op, step) == CHOOSE i \in 1..Len(SearchSteps(op)) : SearchSteps(op)[i] = step

\* impl Default for EmbeddingStatus; last_indexed is None or Some(time)
DefaultStatus == [initialized |-> FALSE, chunks_indexed |-> 0, last_indexed |-> None]

NoBatch == [ids |-> <<>>, vectors |-> <<>>, meta |-> <<>>]

\* What embed_chunks is called with: no text, one chunk, two chunks.  The
\* vectors are the ones the embedder returns for the texts.
EmbedBatches ==
    {NoBatch,
     [ids |-> <<"c1">>, vectors |-> <<Vector(0)>>, meta |-> <<ChunkMeta("c1", "h1")>>],
     [ids |-> <<"c2", "c1">>, vectors |-> <<Vector(1), Vector(1)>>,
      meta |-> <<ChunkMeta("c2", "h1"), ChunkMeta("c1", "h2")>>]}

SearchRequests ==
    {[op |-> op, batch |-> NoBatch] :
        op \in {"init_embedding_model", "search_vectors", "get_embedding_status"}}
    \cup {[op |-> "embed_chunks", batch |-> batch] : batch \in EmbedBatches}

\* The index in the vectors directory when the application starts: no file,
\* or the files an earlier run saved.
SavedIndexes ==
    {NewIndex, AddBatch(NewIndex, <<"c1">>, <<Vector(1)>>, <<ChunkMeta("c1", "h1")>>)}

EmbeddingInit ==
    /\ SupervisorInit
    /\ config = NoCommand /\ host = NoCommand /\ cmd = NoCommand
    /\ activeProjectRoot = NoCommand
    /\ SessionsIdle
    /\ SettingsIdle
    /\ embedderModel = FALSE
    /\ searchLocks = [l \in Locks |-> Unlocked]
    /\ embeddingStatus = DefaultStatus
    /\ vectorIndex = NewIndex
    /\ vectorFiles \in SavedIndexes
    /\ searchCalls = <<>>
    /\ batches = <<>>

\* The guards of call k are dropped.
Released(k) == [l \in Locks |-> IF searchLocks[l] = k THEN Unlocked ELSE searchLocks[l]]

\* The command goes on to its next statement.
Proceed(k) == [searchCalls EXCEPT ![k].pc = @ + 1]

\* The command returns from where it is: its guards are dropped.
ReturnEarly(k) ==
    /\ searchCalls' = [searchCalls EXCEPT
           ![k].pc = Len(SearchSteps(searchCalls[k].op)) + 1]
    /\ searchLocks' = Released(k)

\* A command is invoked: its task starts.
SearchCall(request) ==
    /\ Len(searchCalls) < MaxSearchCalls
    /\ searchCalls' = Append(searchCalls,
            [op |-> request.op, batch |-> request.batch, pc |-> 1,
             fresh |-> FALSE, loaded |-> FALSE])
    /\ UNCHANGED <<notSearchVars, embedderModel, searchLocks, embeddingStatus,
                   vectorIndex, vectorFiles, batches>>

\* state.embedder.lock().await, state.index.lock().await,
\* state.status.lock().unwrap(): the lock is taken when it is free.
Acquire(k) ==
    /\ ~SearchReturned(searchCalls[k])
    /\ SearchStepOf(searchCalls[k])[1] = "lock"
    /\ searchLocks[SearchStepOf(searchCalls[k])[2]] = Unlocked
    /\ searchLocks' = [searchLocks EXCEPT ![SearchStepOf(searchCalls[k])[2]] = k]
    /\ searchCalls' = Proceed(k)
    /\ UNCHANGED <<notSearchVars, embedderModel, embeddingStatus, vectorIndex,
                   vectorFiles, batches>>

\* init_embedding_model: with a model already there the command goes to read
\* the status; otherwise TextEmbedding::try_new gives the model or fails.
TryNew(k) ==
    /\ At(k, <<"do", "try_new">>)
    /\ IF embedderModel
       THEN /\ searchCalls' =
                   [searchCalls EXCEPT
                       ![k].pc = StepIndex(searchCalls[k].op, <<"lock", "status">>)]
            /\ UNCHANGED <<embedderModel, searchLocks>>
       ELSE \/ /\ embedderModel' = TRUE
               /\ searchCalls' = [Proceed(k) EXCEPT ![k].fresh = TRUE]
               /\ UNCHANGED searchLocks
            \/ /\ ReturnEarly(k)
               /\ UNCHANGED embedderModel
    /\ UNCHANGED <<notSearchVars, embeddingStatus, vectorIndex, vectorFiles, batches>>

\* VectorIndex::load(&vectors_dir()): Ok(loaded) replaces the index, Err
\* leaves it.
LoadIndex(k) ==
    /\ At(k, <<"do", "load">>)
    /\ \/ /\ vectorIndex' = vectorFiles
          /\ searchCalls' = [Proceed(k) EXCEPT ![k].loaded = TRUE]
       \/ /\ searchCalls' = Proceed(k)
          /\ UNCHANGED vectorIndex
    /\ UNCHANGED <<notSearchVars, embedderModel, searchLocks, embeddingStatus,
                   vectorFiles, batches>>

\* embed_chunks, search_vectors: without a model the command returns Err;
\* embed_chunks without texts returns Ok(0); embedder.embed gives the
\* vectors or fails.
Embed(k) ==
    /\ At(k, <<"do", "embed">>)
    /\ IF ~embedderModel
          \/ (searchCalls[k].op = "embed_chunks" /\ searchCalls[k].batch = NoBatch)
       THEN ReturnEarly(k)
       ELSE \/ searchCalls' = Proceed(k) /\ UNCHANGED searchLocks
            \/ ReturnEarly(k)
    /\ UNCHANGED <<notSearchVars, embedderModel, embeddingStatus, vectorIndex,
                   vectorFiles, batches>>

\* embed_chunks: index_lock.add_batch(&ids, &embeddings, meta)
AddBatchStep(k) ==
    LET batch == searchCalls[k].batch IN
    /\ At(k, <<"do", "add_batch">>)
    /\ vectorIndex' = AddBatch(vectorIndex, batch.ids, batch.vectors, batch.meta)
    /\ batches' = Append(batches, batch)
    /\ searchCalls' = Proceed(k)
    /\ UNCHANGED <<notSearchVars, embedderModel, searchLocks, embeddingStatus,
                   vectorFiles>>

\* search_vectors: index_lock.search(query_vec, top_k), which reads the index
SearchIndex(k) ==
    /\ At(k, <<"do", "search">>)
    /\ searchCalls' = Proceed(k)
    /\ UNCHANGED <<notSearchVars, embedderModel, searchLocks, embeddingStatus,
                   vectorIndex, vectorFiles, batches>>

\* The status is written or cloned under its lock.  init_embedding_model
\* that made the model sets initialized, and chunks_indexed when the index
\* was loaded; embed_chunks sets chunks_indexed and last_indexed and drops
\* the guard at the end of its block.
UpdateStatus(k) ==
    LET call == searchCalls[k] IN
    /\ At(k, <<"do", "status">>)
    /\ embeddingStatus' =
           CASE call.op = "init_embedding_model" /\ call.fresh ->
                    [embeddingStatus EXCEPT
                        !.initialized = TRUE,
                        !.chunks_indexed = IF call.loaded THEN Len(vectorIndex.ids)
                                           ELSE @]
             [] call.op = "embed_chunks" ->
                    [embeddingStatus EXCEPT
                        !.chunks_indexed = Len(vectorIndex.ids),
                        !.last_indexed = Some("now")]
             [] OTHER -> embeddingStatus
    /\ searchLocks' = IF call.op = "embed_chunks"
                      THEN [searchLocks EXCEPT !["status"] = Unlocked]
                      ELSE searchLocks
    /\ searchCalls' = Proceed(k)
    /\ UNCHANGED <<notSearchVars, embedderModel, vectorIndex, vectorFiles, batches>>

\* embed_chunks: index_lock.save(&vectors_dir()); a failure is only logged
SaveIndex(k) ==
    /\ At(k, <<"do", "save">>)
    /\ \/ vectorFiles' = vectorIndex
       \/ UNCHANGED vectorFiles
    /\ searchCalls' = Proceed(k)
    /\ UNCHANGED <<notSearchVars, embedderModel, searchLocks, embeddingStatus,
                   vectorIndex, batches>>

\* The command returns: its guards are dropped.
Return(k) ==
    /\ At(k, <<"do", "return">>)
    /\ ReturnEarly(k)
    /\ UNCHANGED <<notSearchVars, embedderModel, embeddingStatus, vectorIndex,
                   vectorFiles, batches>>

SearchStep ==
    \E k \in 1..Len(searchCalls) :
        \/ Acquire(k) \/ TryNew(k) \/ LoadIndex(k) \/ Embed(k) \/ AddBatchStep(k)
        \/ SearchIndex(k) \/ UpdateStatus(k) \/ SaveIndex(k) \/ Return(k)

\* The commands run as tasks of a multi-threaded runtime, in any interleaving.
EmbeddingNext ==
    \/ \E request \in SearchRequests : SearchCall(request)
    \/ \E k \in 1..Len(searchCalls) : Acquire(k)
    \/ \E k \in 1..Len(searchCalls) : TryNew(k)
    \/ \E k \in 1..Len(searchCalls) : LoadIndex(k)
    \/ \E k \in 1..Len(searchCalls) : Embed(k)
    \/ \E k \in 1..Len(searchCalls) : AddBatchStep(k)
    \/ \E k \in 1..Len(searchCalls) : SearchIndex(k)
    \/ \E k \in 1..Len(searchCalls) : UpdateStatus(k)
    \/ \E k \in 1..Len(searchCalls) : SaveIndex(k)
    \/ \E k \in 1..Len(searchCalls) : Return(k)

EmbeddingSpec == EmbeddingInit /\ [][EmbeddingNext]_vars

\* A task that can take a step takes it: the runtime runs every task, and
\* try_new, embed, load and save return.
EmbeddingFairSpec == EmbeddingSpec /\ WF_vars(SearchStep)

\* ------------------------------------------------------------ observations
OfType(q, type) == SelectSeq(events[q], LAMBDA e : e.type = type)

DoneEvents(q) == OfType(q, "claude-done")

\* run_query(q) has inserted its child into the registry.
Registered(q) == pc[q] \in {"streaming", "waiting", "done"}

\* Some call cancel_query(q) returned true.
CancelledTrue(q) == \E r \in cancelRets[q] : r.ret

\* Some call cancel_query(q) returned false after send_query had handed out q
\* and before run_query(q) had spawned the child.
CancelMissed(q) == CancelRet(FALSE, "building") \in cancelRets[q]

\* run_query(q) itself took the handle back and waited for the exit.
EndedNaturally(q) == pc[q] = "done" /\ removals[q] = <<"run_query">>

\* This step is a call cancel_query(q) getting the registry lock.
CancelGetsLock(q) == cancelWaiting'[q] = cancelWaiting[q] - 1

\* ------------------------------------------------------------------ claims

C2_ExactlyOneRemoval ==
    \A q \in QueryIds :
        /\ Len(removals[q]) <= 1
        /\ q \in registry => removals[q] = <<>> /\ pc[q] = "streaming"
        /\ pc[q] = "done" => Len(removals[q]) = 1 /\ Len(DoneEvents(q)) = 1

C2_Witness ==
    \E q \in QueryIds :
        /\ pc[q] = "done"
        /\ removals[q] = <<"cancel_query">>
        /\ CancelledTrue(q)
        /\ Len(DoneEvents(q)) = 1

\* C3: claude-done is the last event of its query: no claude-message and no
\* claude-error of the same query follows it.
C3_DoneIsLast ==
    \A q \in QueryIds : \A i \in 1..Len(events[q]) :
        events[q][i].type = "claude-done" => i = Len(events[q])

\* C4: a query whose cancel_query returned true never gets a claude-done with
\* exitCode 0, whatever the engine and whether or not a session id was seen.
C4_CancelledNeverSucceeds ==
    \A q \in QueryIds :
        CancelledTrue(q) =>
            \A i \in 1..Len(DoneEvents(q)) : DoneEvents(q)[i].exitCode # 0

\* C5: once the child of q is spawned and as long as the query has not
\* finished, a cancel_query(q) that gets the lock finds the entry.
C5_SpawnedIsCancellable ==
    [][\A q \in QueryIds :
          (CancelGetsLock(q) /\ child[q] = "running" /\ pc[q] # "done")
              => RegistryFound(registry, q)]_vars

\* C6: cancel_query never returns false for a query whose id is handed out and
\* whose child is not spawned yet and that afterwards spawns and runs to its
\* natural completion.
C6_EarlyCancelHonored ==
    \A q \in QueryIds : ~(CancelMissed(q) /\ EndedNaturally(q))

\* C7: cancel_query(q) returns true exactly when the entry of q is in the
\* registry as the call holds the lock; the same step removes the entry and
\* kills the child, and both still hold when the call returns.
C7_CancelResult ==
    [][\A q \in QueryIds :
          /\ CancelGetsLock(q) =>
                IF q \in registry
                THEN /\ lock' = CancelTask(q)
                     /\ q \notin registry'
                     /\ child'[q] # "running"
                     /\ cancelRets'[q] = cancelRets[q]
                ELSE /\ lock' = Free
                     /\ cancelRets'[q] = cancelRets[q] \cup {CancelRet(FALSE, pc[q])}
          /\ (lock = CancelTask(q) /\ lock' # lock) =>
                /\ cancelRets'[q] = cancelRets[q] \cup {CancelRet(TRUE, pc[q])}
                /\ q \notin registry'
                /\ child'[q] # "running"]_vars

C7_Witness ==
    \E q \in QueryIds :
        CancelledTrue(q) /\ q \notin registry /\ child[q] = "killed"

\* C8: cancel_query on an id that was not handed out, or whose query has
\* finished or lost its entry before, returns false and changes nothing else:
\* registry, lock, children, pipes, readers and events stay as they are.
Finished(q) == pc[q] \in {"none", "done", "spawnFailed"} \/ removals[q] # <<>>

C10_CancelNeverBlocked ==
    \A q, p \in QueryIds :
        ~(/\ p # q
          /\ cancelWaiting[q] > 0
          /\ q \in registry
          /\ lock = RunTask(p)
          /\ child[p] = "running")

\* C11: a child never outlives both its supervising task and its registry
\* entry: when the task running run_query(q) is torn down after the spawn,
\* before or after the registration, and cancel_query(q) was not called, the
\* child of q does not run any more.
CancelCalled(q) ==
    cancelWaiting[q] > 0 \/ cancelRets[q] # {} \/ lock = CancelTask(q)

C11_TornDownKillsChild ==
    \A q \in QueryIds :
        (pc[q] = "dropped" /\ ~CancelCalled(q)) => child[q] # "running"

\* C12: a failed spawn is reported to the caller of send_query as the result
\* of the call: send_query has not returned a query id for a query whose spawn
\* failed.
ReturnedId(q) == q <= nextId

C12_SpawnFailureSynchronous ==
    \A q \in QueryIds : pc[q] = "spawnFailed" => ~ReturnedId(q)

\* C13: a query whose spawn failed has no registry entry and never had one,
\* has no child, no claude-message and no claude-done; the failing step leaves
\* the registry as it was.
C13_SpawnFailureLeavesNothing ==
    /\ [](\A q \in QueryIds :
            pc[q] = "spawnFailed" =>
                /\ q \notin registry
                /\ removals[q] = <<>>
                /\ child[q] = "none"
                /\ OfType(q, "claude-message") = <<>>
                /\ DoneEvents(q) = <<>>)
    /\ [][\A q \in QueryIds :
            (pc[q] # "spawnFailed" /\ pc'[q] = "spawnFailed") =>
                registry' = registry]_vars

C13_Witness ==
    \E q, p \in QueryIds :
        /\ pc[q] = "spawnFailed"
        /\ events[q] = <<ErrorEvent(q, "Failed to spawn")>>
        /\ p \in registry

\* The session id of the last of the given lines that parses as JSON and has
\* a non-empty string under "session_id"; None when there is no such line.
RECURSIVE LastSidWritten(_)
LastSidWritten(lines) ==
    IF lines = <<>>
    THEN None
    ELSE LET l == lines[Len(lines)] IN
         IF l.json /\ l.sid # None /\ l.sid # Some("")
         THEN l.sid
         ELSE LastSidWritten(SubSeq(lines, 1, Len(lines) - 1))

C15_ExitCodeRemap ==
    \A q \in QueryIds : \A i \in 1..Len(DoneEvents(q)) :
        /\ IsSome(rawExits[q])
        /\ LET raw == Unwrap(rawExits[q])
               harvested == LastSidWritten(stdoutWritten[q]) # None
           IN  /\ DoneEvents(q)[i].exitCode =
                      IF engine[q] = Some("gemini") /\ raw # 0 /\ harvested
                      THEN 0 ELSE raw
               /\ engine[q] # Some("gemini") => DoneEvents(q)[i].exitCode = raw
               /\ raw = 0 => DoneEvents(q)[i].exitCode = 0

C15_Witness ==
    \E q \in QueryIds :
        /\ engine[q] = Some("gemini")
        /\ EndedNaturally(q)
        /\ rawExits[q] = Some(1)
        /\ stdoutWritten[q] = <<JsonSidXyz, Plain>>
        /\ Len(DoneEvents(q)) = 1
        /\ DoneEvents(q)[1].exitCode = 0

\* The command has its arguments and stdio set.
Built == cmd.stage \notin {"called", "new", "located"}

LastArg == cmd.args[Len(cmd.args)]

\* C16: with engine claude and a message of 6000 bytes or more the message is
\* no argument of the command, stdin is piped, and when the writer is done
\* stdin has received exactly the message and is closed.
C16_LongMessageViaStdin ==
    (config.engine # Some("gemini") /\ Len(config.message) >= 6000) =>
        /\ Built => /\ \A i \in 1..Len(cmd.args) : cmd.args[i] # config.message
                    /\ cmd.stdin = "piped"
        /\ cmd.stage = "closed" =>
               cmd.stdinWritten = config.message /\ ~cmd.stdinOpen

\* C17 as stated: with a message shorter than 6000 bytes, whatever the engine
\* and the options, the message is the last argument and stdin is not piped.
C17_ShortMessageLastArg ==
    (Built /\ Len(config.message) < 6000) =>
        /\ cmd.args # <<>>
        /\ LastArg = config.message
        /\ cmd.stdin # "piped"

\* C17 as amended: with a message shorter than 6000 bytes stdin is not piped
\* and never written, whatever the engine; with engine claude the message is
\* the last argument; with engine gemini the argument after --prompt is the
\* message, behind the system instructions block when a system prompt is set,
\* and the last argument is another one.
C17_ShortMessagePlacement ==
    (Built /\ Len(config.message) < 6000) =>
        /\ cmd.stdin = "null" /\ ~cmd.stdinOpen /\ cmd.stdinWritten = ""
        /\ config.engine # Some("gemini") =>
               cmd.args # <<>> /\ LastArg = config.message
        /\ config.engine = Some("gemini") =>
               /\ \E i \in 1..(Len(cmd.args) - 1) :
                     /\ cmd.args[i] = "--prompt"
                     /\ cmd.args[i + 1] =
                            IF config.system_prompt = None
                            THEN config.message
                            ELSE "[System Instructions]\n"
                                     \o config.system_prompt[1]
                                     \o "\n\n[User Message]\n" \o config.message
               /\ LastArg # config.message

C17_Witness ==
    /\ cmd.stage = "spawned"
    /\ config.engine = None
    /\ Len(config.message) = 5999
    /\ config.resume /\ config.session_id = Some("sess-1")
    /\ config.permission_mode = Some("acceptEdits")
    /\ cmd.program = "cmd.exe"
    /\ Len(cmd.args) = 20
    /\ LastArg = config.message
    /\ cmd.stdin = "null"

\* The resume flag of the engine.
ResumeFlag == IF config.engine = Some("gemini") THEN "--resume" ELSE "-r"

\* C18: the command has the engine's resume flag followed by the session id
\* exactly when resume is true and a session id is set; otherwise the flag is
\* no argument at all.
C18_ResumeFlag ==
    Built =>
        IF config.resume /\ config.session_id # None
        THEN \E i \in 1..(Len(cmd.args) - 1) :
                 cmd.args[i] = ResumeFlag /\ cmd.args[i + 1] = config.session_id[1]
        ELSE \A i \in 1..Len(cmd.args) : cmd.args[i] # ResumeFlag

C18_Witness ==
    /\ Built
    /\ config.engine = Some("gemini")
    /\ config.resume /\ config.session_id = Some("sess-1")
    /\ config.model = None
    /\ cmd.args[Len(cmd.args) - 1] = "--resume"
    /\ LastArg = "sess-1"

\* The texts of the lines that are not whitespace only, in order.
RECURSIVE NonBlankTexts(_)
NonBlankTexts(lines) ==
    IF lines = <<>>
    THEN <<>>
    ELSE (IF lines[1] = Blank THEN <<>> ELSE <<lines[1].text>>)
             \o NonBlankTexts(Tail(lines))

\* The data of the claude-message events of q, in order.
MessageData(q) ==
    LET msgs == OfType(q, "claude-message")
    IN  [i \in 1..Len(msgs) |-> msgs[i].data]

FoundPath == IF cmd.preArgs # <<>> THEN cmd.preArgs[1] ELSE cmd.binary

\* The candidates of the engine of config that exist on the host.
ExistingCandidates ==
    IF config.engine = Some("gemini")
    THEN host.files \cap
            (IF host.os = "windows"
             THEN {GeminiWinScript, GeminiNpmCmd}
             ELSE {GeminiNpmGlobalScript, GeminiUsrLibScript, GeminiNpmBin}
                      \cup Range(GeminiBrewPaths))
    ELSE {ExtBinary(host.extensions[i], host.os) :
              i \in {j \in 1..Len(host.extensions) :
                        /\ ExtMatches(host.extensions[j], host.os)
                        /\ host.extensions[j].bin}}
             \cup (host.files \cap
                      ({ClaudeNpmCmd, ClaudeStandalone, ClaudeNpmGlobal}
                           \cup Range(ClaudeBrewPaths) \cup Range(ClaudeCommonPaths)))

\* The four kinds of candidates in the order of the claim: 1 the binary of an
\* editor extension, 2 the user-level install (the standalone install, the
\* npm wrapper of Windows, the script of the global npm package), 3 a
\* well-known system path, 4 the bin directory of the npm prefix.
CandidateKind(path) ==
    IF StartsWith(path, ExtensionsDir) THEN 1
    ELSE IF path \in {ClaudeStandalone, ClaudeNpmCmd, GeminiWinScript, GeminiNpmCmd,
                      GeminiNpmGlobalScript} THEN 2
    ELSE IF path \in {ClaudeNpmGlobal, GeminiNpmBin} THEN 4
    ELSE 3

BareName == IF config.engine = Some("gemini") THEN "gemini" ELSE "claude"

Rank(path) ==
    IF config.engine = Some("gemini") /\ path \in Range(GeminiBrewPaths)
    THEN 5
    ELSE CandidateKind(path)

MessageArgs == {i \in 1..Len(cmd.args) : EndsWith(cmd.args[i], config.message)}

\* C21: the message reaches the child through exactly one channel: stdin is
\* piped exactly when no argument carries the message and is the null device
\* otherwise; a piped stdin receives the message and nothing else, a null
\* stdin receives nothing; for gemini the message is always an argument.
C21_OneChannel ==
    Built =>
        /\ cmd.stdin \in {"piped", "null"}
        /\ (cmd.stdin = "piped") <=> (MessageArgs = {})
        /\ Cardinality(MessageArgs) <= 1
        /\ IsGemini(config.engine) => MessageArgs # {}
        /\ cmd.stdin = "null" => ~cmd.stdinOpen /\ cmd.stdinWritten = ""
        /\ cmd.stdinWritten \in {"", config.message}
        /\ cmd.stage = "closed" => cmd.stdinWritten = config.message

\* A long message has been written to the piped stdin of a claude child and
\* no argument carries it.
C21_Witness ==
    /\ cmd.stage = "closed"
    /\ cmd.stdin = "piped"
    /\ MessageArgs = {}
    /\ cmd.stdinWritten = config.message

\* The terminal outcomes a query has reached: its spawn failed, or run_query
\* has returned after cancel_query took the handle, or after its own
\* completion step took it.
Outcomes(q) ==
    {o \in {"SpawnFailed", "Cancelled", "Completed"} :
        \/ o = "SpawnFailed" /\ pc[q] = "spawnFailed"
        \/ o = "Cancelled" /\ pc[q] = "done"
               /\ \E i \in 1..Len(removals[q]) : removals[q][i] = "cancel_query"
        \/ o = "Completed" /\ pc[q] = "done"
               /\ \E i \in 1..Len(removals[q]) : removals[q][i] = "run_query"}

\* The lifecycle state of a query.  The handle is registered and the readers
\* are spawned with no await in between, so Registered is passed within the
\* step that enters Streaming.
Lifecycle(q) ==
    CASE pc[q] = "none" -> "NotSubmitted"
      [] pc[q] = "building" -> "Building"
      [] pc[q] = "spawned" -> "Spawning"
      [] pc[q] \in {"streaming", "waiting"} -> "Streaming"
      [] OTHER -> IF Outcomes(q) = {} THEN "Ended" ELSE CHOOSE o \in Outcomes(q) : TRUE

LifecycleRank(state) ==
    CASE state = "NotSubmitted" -> 0
      [] state = "Building" -> 1
      [] state = "Spawning" -> 2
      [] state = "Streaming" -> 3
      [] OTHER -> 4

\* C22: a query moves through Building, Spawning, Registered/Streaming in
\* this order, one state at a time, and ends in exactly one of Cancelled,
\* Completed (both from Streaming) and SpawnFailed (from the spawn attempt);
\* a terminal outcome is never left and no query has two of them.
C22_LifecycleForward ==
    /\ [](\A q \in QueryIds :
              /\ Cardinality(Outcomes(q)) <= 1
              /\ pc[q] \in {"done", "spawnFailed"} => Cardinality(Outcomes(q)) = 1)
    /\ [][\A q \in QueryIds :
              LET before == Lifecycle(q)
                  after == Lifecycle(q)'
              IN  \/ after = before
                  \/ /\ LifecycleRank(before) < 4
                     /\ LifecycleRank(after) = LifecycleRank(before) + 1
                     /\ after # "SpawnFailed"
                     /\ after # "Ended"
                  \/ before = "Building" /\ after = "SpawnFailed"]_vars

\* One query has ended Cancelled, another Completed.
C22_Witness ==
    \E q1, q2 \in QueryIds :
        /\ Lifecycle(q1) = "Cancelled"
        /\ Lifecycle(q2) = "Completed"

\* The completion step of run_query(q) got the handle from the registry.
HandleRetrieved(q) == \E i \in 1..Len(removals[q]) : removals[q][i] = "run_query"

\* C23: the raw exit code behind claude-done is the exit code of the child
\* when the completion step retrieved the handle and the process exited with
\* a code; it is -1 when the process has no exit code, when the wait failed,
\* and when the completion step found no entry.
C23_RawExitCode ==
    \A q \in QueryIds :
        pc[q] = "done" =>
            /\ IsSome(statuses[q]) /\ IsSome(rawExits[q])
            /\ LET status == Unwrap(statuses[q])
                   raw == Unwrap(rawExits[q])
               IN  /\ ~HandleRetrieved(q) => status = None
                   /\ IF HandleRetrieved(q) /\ status # None /\ Unwrap(status) # None
                      THEN raw = Unwrap(Unwrap(status))
                      ELSE raw = -1
                   /\ Len(DoneEvents(q)) = 1
                   /\ DoneEvents(q)[1].exitCode =
                          ExitCode(IsGemini(engine[q]), raw, lastSessionId[q])

\* One query has ended with the exit code 1 of its child, another was
\* cancelled and has ended with -1.
C23_Witness ==
    \E q1, q2 \in QueryIds :
        /\ pc[q1] = "done" /\ HandleRetrieved(q1)
        /\ statuses[q1] = Some(Some(Some(1))) /\ rawExits[q1] = Some(1)
        /\ pc[q2] = "done" /\ ~HandleRetrieved(q2)
        /\ rawExits[q2] = Some(-1)

\* The data of the claude-error events of q, in order.
ErrorData(q) ==
    LET errs == OfType(q, "claude-error")
    IN  [i \in 1..Len(errs) |-> errs[i].data]

EngineArgs ==
    LET prefix == (IF IsCmd(cmd.binary) THEN 2 ELSE 0) + Len(cmd.preArgs)
    IN  SubSeq(cmd.args, prefix + 1, Len(cmd.args))

\* A flag of an engine: whether the config asks for it, and its value when it
\* has one.
Flag(name, present, valued, value) ==
    [name |-> name, present |-> present, valued |-> valued, value |-> value]

OptionFlag(name, opt) ==
    Flag(name, opt # None, TRUE, IF opt # None THEN Unwrap(opt) ELSE "")

ResumeOption(name) ==
    Flag(name, config.resume /\ config.session_id # None, TRUE,
         IF config.session_id # None THEN Unwrap(config.session_id) ELSE "")

\* The flags of the claude engine in the order of C25.
ClaudeFlags ==
    <<OptionFlag("--model", config.model),
      OptionFlag("--mcp-config", config.mcp_config),
      OptionFlag("--system-prompt", config.system_prompt),
      Flag("--max-turns", config.max_turns # None, TRUE,
           IF config.max_turns = Some(12) THEN "12" ELSE ""),
      OptionFlag("--tools", config.tools),
      Flag("--strict-mcp-config", config.strict_mcp, FALSE, ""),
      OptionFlag("--permission-mode", config.permission_mode),
      ResumeOption("-r")>>

FlagWidth(f) == IF ~f.present THEN 0 ELSE IF f.valued THEN 2 ELSE 1

\* The number of arguments the first k flags take.
RECURSIVE FlagsWidth(_, _)
FlagsWidth(flags, k) ==
    IF k = 0 THEN 0 ELSE FlagsWidth(flags, k - 1) + FlagWidth(flags[k])

\* The arguments args are: the fixed ones, then every present flag of flags
\* (with its value) at its place, then nothing but rest.
FlagsInOrder(args, fixed, flags, rest) ==
    /\ Len(args) = Len(fixed) + FlagsWidth(flags, Len(flags)) + Len(rest)
    /\ SubSeq(args, 1, Len(fixed)) = fixed
    /\ \A k \in 1..Len(flags) :
           LET at == Len(fixed) + FlagsWidth(flags, k - 1) + 1
           IN  flags[k].present =>
                   /\ args[at] = flags[k].name
                   /\ flags[k].valued => args[at + 1] = flags[k].value
    /\ SubSeq(args, Len(args) - Len(rest) + 1, Len(args)) = rest

\* C25: for engine claude the arguments are -p, --verbose, --output-format
\* stream-json, then in this order one flag for each of model, mcp_config,
\* system_prompt, max_turns, tools, strict_mcp, permission_mode and resume
\* that is present and none for an absent one; tools = "" gives --tools with
\* an empty value.  Only the message, when it is an argument, follows.
C25_ClaudeFlags ==
    (Built /\ ~IsGemini(config.engine)) =>
        \E rest \in {<<>>, <<config.message>>} :
            FlagsInOrder(EngineArgs, <<"-p", "--verbose", "--output-format", "stream-json">>,
                         ClaudeFlags, rest)

\* A claude command with every option set and tools = "": --tools is
\* followed by the empty value.
C25_Witness ==
    /\ Built /\ ~IsGemini(config.engine)
    /\ \A k \in 1..Len(ClaudeFlags) : ClaudeFlags[k].present
    /\ config.tools = Some("")
    /\ \E i \in 1..(Len(EngineArgs) - 1) :
           EngineArgs[i] = "--tools" /\ EngineArgs[i + 1] = ""
    /\ IsCmd(cmd.binary)

\* The value of --prompt: the message, behind the bracketed block of system
\* instructions when the config has a system prompt.
PromptValue ==
    IF config.system_prompt = None
    THEN config.message
    ELSE "[System Instructions]\n" \o Unwrap(config.system_prompt)
             \o "\n\n[User Message]\n" \o config.message

\* The optional flags of the gemini engine in the order of C26.
GeminiFlags == <<OptionFlag("--model", config.model), ResumeOption("--resume")>>

C27_WorkingDirectory ==
    /\ [](Built => cmd.cwd = config.cwd)
    /\ [][/\ (cmd.stage = "called" /\ cmd'.stage # "called") =>
                 config'.cwd = IF config.cwd # None THEN config.cwd
                               ELSE activeProjectRoot
          /\ cmd.stage # "called" => config' = config
          /\ Built => cmd'.cwd = cmd.cwd]_vars

\* The child got the project root that was active when send_query was called,
\* and another project has become active since.
C27_Witness ==
    /\ cmd.stage = "spawned"
    /\ cmd.cwd = Some("/root-a")
    /\ activeProjectRoot = Some("/root-b")

\* Every query send_query has handed out has emitted its claude-done.
AllDone == nextId > 0 /\ \A q \in 1..nextId : Len(DoneEvents(q)) = 1

C29_MessagesBeforeDone ==
    \A q \in QueryIds :
        /\ \A i, j \in 1..Len(events[q]) :
               (events[q][i].type = "claude-done" /\ events[q][j].type = "claude-message")
                   => j < i
        /\ Len(DoneEvents(q)) > 0 => outReader[q] = "finished" /\ outBuf[q] = <<>>

\* Two messages and then claude-done have been emitted for a query.
C29_Witness ==
    \E q \in QueryIds :
        /\ Len(events[q]) = 3
        /\ events[q][1].type = "claude-message"
        /\ events[q][2].type = "claude-message"
        /\ events[q][3].type = "claude-done"

\* This step is a step of a call cancel_query(q): the call is made, gets the
\* lock, or returns.
CancelQueryStep(q) ==
    cancelWaiting'[q] # cancelWaiting[q] \/ cancelRets'[q] # cancelRets[q]

\* What belongs to query p: its registry entry, its child and pipes, its
\* task, its readers and its events.
OwnState(p) ==
    <<p \in registry, child[p], stdoutOpen[p], outBuf[p], errBuf[p], pc[p],
      outReader[p], errReader[p], lastSessionId[p], statuses[p], rawExits[p],
      events[p], removals[p]>>

CancelledBeforeOutput(q) == CancelledTrue(q) /\ stdoutWritten[q] = <<>>

SessionCallsOver ==
    sessionCalls # <<>> /\ \A k \in 1..Len(sessionCalls) : ~Running(sessionCalls[k])

CallsOf(op, id) ==
    {k \in 1..Len(sessionCalls) : sessionCalls[k].op = op /\ sessionCalls[k].id = id}

InIndex(id) == IndexPosition(sessionsIndex, id) # 0

\* C32: the updates of the sessions index are atomic: once the calls have
\* returned, concurrent or not, a session that was saved and never deleted
\* has its entry in the index, and a session that was deleted and not saved
\* has none: no update of the index is lost to a call for another session.
C32_IndexUpdateAtomic ==
    SessionCallsOver =>
        \A id \in SessionIds :
            /\ (CallsOf("save_session_file", id) # {}
                    /\ CallsOf("delete_session_file", id) = {}) => InIndex(id)
            /\ (CallsOf("delete_session_file", id) # {}
                    /\ CallsOf("save_session_file", id) = {}) => ~InIndex(id)


EntryOf(index, id) == index[IndexPosition(index, id)]

Pinned(index, id) == IndexPosition(index, id) # 0 /\ EntryOf(index, id).pinned

Unpinned(index, id) == IndexPosition(index, id) # 0 /\ ~EntryOf(index, id).pinned

WritesIndexFor(op, id) ==
    \E k \in 1..Len(sessionCalls) :
        /\ sessionCalls[k].op = op
        /\ sessionCalls[k].id = id
        /\ WriteSessionsIndex(k)

\* C33: a save_session_file for an id whose index entry is pinned leaves the
\* entry pinned, whatever pinned flag the saved session carries; and the
\* entry of an id goes from pinned to unpinned only in the index write of a
\* toggle_session_pin for that id (a delete removes the entry).
C33_PinnedKept ==
    [][\A id \in SessionIds :
          /\ (Pinned(sessionsIndex, id) /\ WritesIndexFor("save_session_file", id))
                 => Pinned(sessionsIndex', id)
          /\ (Pinned(sessionsIndex, id) /\ Unpinned(sessionsIndex', id))
                 => WritesIndexFor("toggle_session_pin", id)]_vars


ReturnedCalls(op, id) ==
    {k \in CallsOf(op, id) : sessionCalls[k].at \in {"done", "failed"}}

\* The calls are made one at a time, so the order of the calls is the order
\* of their slots: the last finished save or delete of the id, 0 for none.
LastSaveOrDelete(id) ==
    LET calls == ReturnedCalls("save_session_file", id)
                     \cup ReturnedCalls("delete_session_file", id)
    IN  IF calls = {} THEN 0 ELSE CHOOSE k \in calls : \A j \in calls : j <= k

EntriesOf(id) == {i \in 1..Len(sessionsIndex) : sessionsIndex[i].id = id}

\* C34: with the commands called one at a time from an empty index, when no
\* call is under way the index has at most one entry for each session id, and
\* it has an entry for an id exactly when the last save or delete of the id
\* was a save.
C34_IndexEntries ==
    NoCallRunning =>
        \A id \in SessionIds :
            /\ Cardinality(EntriesOf(id)) <= 1
            /\ InIndex(id) <=>
                   /\ LastSaveOrDelete(id) # 0
                   /\ sessionCalls[LastSaveOrDelete(id)].op = "save_session_file"

\* A session was deleted and then saved again by the last call: the calls
\* are over and the session has its entry.
C34_Witness ==
    /\ NoCallRunning
    /\ Len(sessionCalls) = MaxSessionCalls
    /\ \E id \in SessionIds :
          /\ ReturnedCalls("delete_session_file", id) # {}
          /\ LastSaveOrDelete(id) = MaxSessionCalls
          /\ sessionCalls[MaxSessionCalls].op = "save_session_file"
          /\ InIndex(id)


NoDeleteCalled ==
    \A k \in 1..Len(sessionCalls) : sessionCalls[k].op # "delete_session_file"

\* C35: with save_session_file, update_session_title and toggle_session_pin
\* called one at a time, when no call is under way every session that has an
\* index entry and a data file has the same title and the same pinned flag in
\* both.
C35_FileMatchesIndex ==
    (NoCallRunning /\ NoDeleteCalled) =>
        \A id \in SessionIds :
            (InIndex(id) /\ sessionFiles[id] # None) =>
                /\ Unwrap(sessionFiles[id]).title = EntryOf(sessionsIndex, id).title
                /\ Unwrap(sessionFiles[id]).pinned = EntryOf(sessionsIndex, id).pinned


SaveCommands == {"save_settings", "save_projects"}

\* Call k takes a step.
Stepping(k) == settingsCalls'[k].pc = settingsCalls[k].pc + 1

NotOwned(k) == SettingsFields \ Owned(settingsCalls[k].op)

Writing(k) == Stepping(k) /\ StepOf(settingsCalls[k])[1] = "write"

OnlySaveCalls ==
    /\ settingsCalls # <<>>
    /\ \A k \in 1..Len(settingsCalls) : settingsCalls[k].op \in SaveCommands

\* C37: once save_settings and save_projects calls, concurrent or not, have
\* all returned, the Settings on disk is the one in memory: close_to_tray,
\* vault_path, projects and active_project_id are equal.
C37_DiskEqualsMemory ==
    (OnlySaveCalls /\ NoSettingsCallRunning) => disk = memory


RECURSIVE Flatten(_)
\* The chunks given to add_batch so far, in order: <<id, vector, meta>>.
Flatten(calls) ==
    IF calls = <<>> THEN <<>>
    ELSE Flatten(SubSeq(calls, 1, Len(calls) - 1))
             \o [i \in DOMAIN calls[Len(calls)].ids |->
                    <<calls[Len(calls)].ids[i], calls[Len(calls)].vectors[i],
                      calls[Len(calls)].meta[i]>>]

\* The last chunk given with the id.
LastGiven(id) ==
    LET given == Flatten(batches)
        last == CHOOSE i \in DOMAIN given :
                    given[i][1] = id /\ \A j \in DOMAIN given : given[j][1] = id => j <= i
    IN  given[last]

GivenIds == {Flatten(batches)[i][1] : i \in DOMAIN Flatten(batches)}

VectorAt(index, i) ==
    SubSeq(index.vectors, (i - 1) * index.dimension + 1, i * index.dimension)

\* C39: after any sequence of add_batch calls, each with one vector of
\* dimension components and one metadata record per id: no chunk id is twice
\* in the index, vectors has dimension components for each id, the metadata
\* at each position carries the id at that position, and every id given is
\* in the index with the vector and the metadata it was last given with.
C39_IndexAligned ==
    /\ \A i, j \in DOMAIN vectorIndex.ids :
           vectorIndex.ids[i] = vectorIndex.ids[j] => i = j
    /\ Len(vectorIndex.vectors) = Len(vectorIndex.ids) * vectorIndex.dimension
    /\ Len(vectorIndex.meta) = Len(vectorIndex.ids)
    /\ \A i \in DOMAIN vectorIndex.ids : vectorIndex.meta[i].id = vectorIndex.ids[i]
    /\ {vectorIndex.ids[i] : i \in DOMAIN vectorIndex.ids} = GivenIds
    /\ \A i \in DOMAIN vectorIndex.ids :
           /\ VectorAt(vectorIndex, i) = LastGiven(vectorIndex.ids[i])[2]
           /\ vectorIndex.meta[i] = LastGiven(vectorIndex.ids[i])[3]

\* The chunk the first call gave first is given again by the last call,
\* with another vector and another content hash, after a call that gave
\* another chunk first: the index has two chunks.
C39_Witness ==
    /\ Len(batches) = MaxBatches
    /\ Len(vectorIndex.ids) = 2
    /\ \E id \in ChunkIds :
          /\ batches[1].ids[1] = id
          /\ batches[1].ids # batches[2].ids
          /\ batches[2].ids[1] # id
          /\ batches[MaxBatches].ids = <<id>>
          /\ batches[MaxBatches].vectors # <<batches[1].vectors[1]>>
          /\ batches[MaxBatches].meta[1] # batches[1].meta[1]


\* The order the commands take the locks in.
LockRank(l) == CASE l = "embedder" -> 1 [] l = "index" -> 2 [] OTHER -> 3

HeldBy(k) == {l \in Locks : searchLocks[l] = k}

Started(k) == Len(searchCalls) >= k

\* C38: the commands of the semantic search, in any interleaving, take the
\* embedder, index and status locks in that order: a command takes a lock
\* only while it holds none that comes at or after it; a command that has
\* returned holds no lock; and every command that was started returns, so
\* that no command waits for a lock for ever.
C38_NoDeadlock ==
    /\ [][\A k \in 1..Len(searchCalls) : \A l \in Locks :
              (searchLocks[l] # k /\ searchLocks'[l] = k) =>
                  \A held \in HeldBy(k) : LockRank(held) < LockRank(l)]_vars
    /\ [](\A k \in 1..Len(searchCalls) :
              SearchReturned(searchCalls[k]) => HeldBy(k) = {})
    /\ \A k \in 1..MaxSearchCalls :
           Started(k) ~> (Started(k) /\ SearchReturned(searchCalls[k]))

\* Three commands at once: one holds the embedder and the index and is about
\* to take the status, which get_embedding_status holds, and a third waits
\* for the embedder.
C38_Witness ==
    \E i, j, k \in 1..Len(searchCalls) :
        /\ HeldBy(i) = {"embedder", "index"}
        /\ At(i, <<"lock", "status">>)
        /\ searchCalls[j].op = "get_embedding_status"
        /\ HeldBy(j) = {"status"}
        /\ k # i
        /\ At(k, <<"lock", "embedder">>)

====
